---- MODULE Spec2Model ----
(***************************************************************************)
(* The profile content schema (src/schemas/profile.schema.ts) and the      *)
(* validation of one profile document against it.                          *)
(*                                                                         *)
(* A document is a tree of JSON values.  The schemas are written as data,  *)
(* field by field as in the source, and Parse interprets them the way the  *)
(* zod combinators the source builds them from do: z.object parses every   *)
(* key of its shape and gathers every issue, a wrong type aborts the value *)
(* it is found in, a failed check (length, range, format) only marks it    *)
(* dirty, and a refinement runs only on a value that was not aborted.      *)
(***************************************************************************)
EXTENDS Integers, Sequences, FiniteSets, TLC

(***************************************************************************)
(* JSON values.  A number is kept as twice its value, so that the halves   *)
(* (0.5, 2.5, ...) are values of the model too.                            *)
(***************************************************************************)
Undefined == [k |-> "undefined"]
JNull == [k |-> "null"]
JStr(s) == [k |-> "string", s |-> s]
JNum(n) == [k |-> "number", twice |-> 2 * n]
JHalf(t) == [k |-> "number", twice |-> t]
JBool(b) == [k |-> "boolean", b |-> b]
JArr(e) == [k |-> "array", e |-> e]
JObj(f) == [k |-> "object", f |-> f]

\* data[key] of a JavaScript object: undefined when the key is not set.
Get(v, key) == IF key \in DOMAIN v.f THEN v.f[key] ELSE Undefined

\* The i-th array index as a path segment ("0", "1", ...).
Index(i) == ToString(i - 1)

(***************************************************************************)
(* Characters of the strings a format check reads.  TLC cannot index into  *)
(* a string, so every string that a document of the model puts in a url or *)
(* datetime field is spelled out here.                                     *)
(***************************************************************************)
Chars(s) ==
  CASE s = "https://a.dev" -> <<"h","t","t","p","s",":","/","/","a",".","d","e","v">>
    [] s = "http://a.dev" -> <<"h","t","t","p",":","/","/","a",".","d","e","v">>
    [] s = "HTTPS://A.DEV" -> <<"H","T","T","P","S",":","/","/","A",".","D","E","V">>
    [] s = "mailto:a@b.c" -> <<"m","a","i","l","t","o",":","a","@","b",".","c">>
    [] s = "ftp://a.dev" -> <<"f","t","p",":","/","/","a",".","d","e","v">>
    [] s = "tel:1" -> <<"t","e","l",":","1">>
    [] s = "https://" -> <<"h","t","t","p","s",":","/","/">>
    [] s = "/about" -> <<"/","a","b","o","u","t">>
    [] s = "a.dev" -> <<"a",".","d","e","v">>
    [] s = "about" -> <<"a","b","o","u","t">>
    [] s = "" -> <<>>
    [] s = "2026-01-15T10:30:00Z" ->
         <<"2","0","2","6","-","0","1","-","1","5","T","1","0",":","3","0",":","0","0","Z">>
    [] s = "2026-01-15T10:30:00.5Z" ->
         <<"2","0","2","6","-","0","1","-","1","5","T","1","0",":","3","0",":","0","0",".","5","Z">>
    [] s = "2026-01-15" -> <<"2","0","2","6","-","0","1","-","1","5">>

LowerAlpha == <<"a","b","c","d","e","f","g","h","i","j","k","l","m",
                "n","o","p","q","r","s","t","u","v","w","x","y","z">>
UpperAlpha == <<"A","B","C","D","E","F","G","H","I","J","K","L","M",
                "N","O","P","Q","R","S","T","U","V","W","X","Y","Z">>
Digits == {"0","1","2","3","4","5","6","7","8","9"}
Range(q) == {q[i] : i \in DOMAIN q}
IsAlpha(c) == c \in Range(LowerAlpha) \union Range(UpperAlpha)
ToLower(c) ==
  IF c \in Range(UpperAlpha)
  THEN LowerAlpha[CHOOSE i \in DOMAIN UpperAlpha : UpperAlpha[i] = c]
  ELSE c

(***************************************************************************)
(* z.string().url(): the string must parse with new URL(s), without a      *)
(* base.  The parser needs a scheme (a letter, then letters, digits, "+",  *)
(* "-", "."), ended by ":".  A special scheme (http, https, ftp, ws, wss)  *)
(* skips the slashes after the colon and then needs a host that is not     *)
(* empty; any other scheme takes the rest as it is.                        *)
(***************************************************************************)
SpecialSchemes ==
  { <<"h","t","t","p">>, <<"h","t","t","p","s">>, <<"f","t","p">>,
    <<"w","s">>, <<"w","s","s">> }
HostEnd == {"/", "?", "#"}
ForbiddenHost == {" ", "<", ">", "[", "]", "^", "|", "%"}

\* Position of the first ":" of cs, 0 when there is none.
ColonAt(cs) ==
  IF \E i \in DOMAIN cs : cs[i] = ":"
  THEN CHOOSE i \in DOMAIN cs : cs[i] = ":" /\ \A j \in 1..(i - 1) : cs[j] # ":"
  ELSE 0

Scheme(cs) == [i \in 1..(ColonAt(cs) - 1) |-> ToLower(cs[i])]

HasScheme(cs) ==
  /\ ColonAt(cs) > 1
  /\ IsAlpha(cs[1])
  /\ \A i \in 2..(ColonAt(cs) - 1) :
       IsAlpha(cs[i]) \/ cs[i] \in Digits \union {"+", "-", "."}

\* First position after the colon that is not a slash.
HostStart(cs) ==
  CHOOSE i \in (ColonAt(cs) + 1)..(Len(cs) + 1) :
    /\ i = Len(cs) + 1 \/ cs[i] \notin {"/", "\\"}
    /\ \A j \in (ColonAt(cs) + 1)..(i - 1) : cs[j] \in {"/", "\\"}

\* The host: from HostStart to the next "/", "?", "#" or the end.
Host(cs) ==
  LET from == HostStart(cs)
      to == CHOOSE i \in from..(Len(cs) + 1) :
              /\ i = Len(cs) + 1 \/ cs[i] \in HostEnd
              /\ \A j \in from..(i - 1) : cs[j] \notin HostEnd
  IN  SubSeq(cs, from, to - 1)

IsUrl(cs) ==
  /\ HasScheme(cs)
  /\ Scheme(cs) \in SpecialSchemes =>
       /\ Host(cs) # <<>>
       /\ \A i \in DOMAIN Host(cs) : Host(cs)[i] \notin ForbiddenHost

(***************************************************************************)
(* z.string().datetime(): YYYY-MM-DDTHH:MM:SS, an optional fraction of a   *)
(* second, and a closing "Z" (no offset is allowed by default).            *)
(***************************************************************************)
DatetimeShape == <<"d","d","d","d","-","d","d","-","d","d","T","d","d",":","d","d",":","d","d">>

IsDatetime(cs) ==
  /\ Len(cs) > Len(DatetimeShape)
  /\ \A i \in DOMAIN DatetimeShape :
       IF DatetimeShape[i] = "d" THEN cs[i] \in Digits ELSE cs[i] = DatetimeShape[i]
  /\ cs[Len(cs)] = "Z"
  /\ \/ Len(cs) = Len(DatetimeShape) + 1
     \/ /\ Len(cs) > Len(DatetimeShape) + 2
        /\ cs[Len(DatetimeShape) + 1] = "."
        /\ \A i \in (Len(DatetimeShape) + 2)..(Len(cs) - 1) : cs[i] \in Digits

(***************************************************************************)
(* Schemas as data: one constructor per zod combinator the source uses.    *)
(* An object's shape is a sequence of <<key, schema>> in source order: it  *)
(* is the order its keys are parsed and its issues reported in.            *)
(***************************************************************************)
\* The limit of a number or array schema that has none.
NoLimit == 0 - 1
ZString == [t |-> "string", format |-> "none"]
ZUrl == [t |-> "string", format |-> "url"]
ZDatetime == [t |-> "string", format |-> "datetime"]
ZNumber == [t |-> "number", min |-> NoLimit, max |-> NoLimit]
ZNumberIn(lo, hi) == [t |-> "number", min |-> lo, max |-> hi]
ZBoolean == [t |-> "boolean"]
ZEnum(vals) == [t |-> "enum", values |-> vals]
ZArray(el) == [t |-> "array", el |-> el, min |-> NoLimit, max |-> NoLimit]
ZArrayIn(el, lo, hi) == [t |-> "array", el |-> el, min |-> lo, max |-> hi]
ZObject(shape) == [t |-> "object", shape |-> shape]
ZOptional(in) == [t |-> "optional", in |-> in]
ZNullable(in) == [t |-> "nullable", in |-> in]
ZDefault(in, v) == [t |-> "default", in |-> in, value |-> v]
ZRefine(in, check, msg) == [t |-> "refine", in |-> in, check |-> check, message |-> msg]

(***************************************************************************)
(* Parsing.  A result is the status (valid, dirty: a check failed, or      *)
(* aborted: the value has not the type), the parsed value and the issues   *)
(* in the order they were raised.                                          *)
(***************************************************************************)
Issue(path, code, msg) == [path |-> path, code |-> code, message |-> msg]
Ok(v) == [status |-> "valid", value |-> v, issues |-> <<>>]
Invalid(issues) == [status |-> "aborted", value |-> Undefined, issues |-> issues]

\* The invalid_type issue: "Required" for a value that is not there.
InvalidType(expected, v, path) ==
  Invalid(<< Issue(path, "invalid_type",
                   IF v.k = "undefined" THEN "Required"
                   ELSE "Expected " \o expected \o ", received " \o v.k) >>)

RECURSIVE ConcatIssues(_, _)
ConcatIssues(results, i) ==
  IF i > Len(results) THEN <<>>
  ELSE results[i].issues \o ConcatIssues(results, i + 1)

\* ParseStatus.mergeArray / mergeObjectSync: aborted wins, then dirty.
MergeStatus(own, results) ==
  IF \E i \in DOMAIN results : results[i].status = "aborted" THEN "aborted"
  ELSE IF own = "dirty" \/ \E i \in DOMAIN results : results[i].status = "dirty"
       THEN "dirty"
       ELSE "valid"

ParseString(s, v, path) ==
  IF v.k # "string" THEN InvalidType("string", v, path)
  ELSE IF s.format = "url" /\ ~IsUrl(Chars(v.s))
       THEN [status |-> "dirty", value |-> v,
             issues |-> << Issue(path, "invalid_string", "Invalid url") >>]
  ELSE IF s.format = "datetime" /\ ~IsDatetime(Chars(v.s))
       THEN [status |-> "dirty", value |-> v,
             issues |-> << Issue(path, "invalid_string", "Invalid datetime") >>]
  ELSE Ok(v)

\* min and max are inclusive; both checks run.
ParseNumber(s, v, path) ==
  IF v.k # "number" THEN InvalidType("number", v, path)
  ELSE LET small == IF s.min # NoLimit /\ v.twice < 2 * s.min
                    THEN << Issue(path, "too_small",
                                  "Number must be greater than or equal to " \o ToString(s.min)) >>
                    ELSE <<>>
           big == IF s.max # NoLimit /\ v.twice > 2 * s.max
                  THEN << Issue(path, "too_big",
                                "Number must be less than or equal to " \o ToString(s.max)) >>
                  ELSE <<>>
       IN  [status |-> IF small \o big = <<>> THEN "valid" ELSE "dirty",
            value |-> v, issues |-> small \o big]

ParseBoolean(s, v, path) ==
  IF v.k # "boolean" THEN InvalidType("boolean", v, path) ELSE Ok(v)

\* A string outside the literal set aborts, like a value that is no string.
ParseEnum(s, v, path) ==
  IF v.k # "string" THEN InvalidType("enum", v, path)
  ELSE IF v.s \notin s.values
       THEN Invalid(<< Issue(path, "invalid_enum_value",
                             "Invalid enum value, received '" \o v.s \o "'") >>)
       ELSE Ok(v)

RECURSIVE Parse(_, _, _)
RECURSIVE ParseItems(_, _, _, _)
RECURSIVE ParseShape(_, _, _, _)
RECURSIVE ParseShapeFirstError(_, _, _, _)

ParseItems(el, items, i, path) ==
  IF i > Len(items) THEN <<>>
  ELSE << Parse(el, items[i], Append(path, Index(i))) >> \o ParseItems(el, items, i + 1, path)

\* (ParseShapeFirstError stops at the first key that has an issue.)
ParseShapeFirstError(shape, v, i, path) ==
  IF i > Len(shape) THEN <<>>
  ELSE LET r == Parse(shape[i][2], Get(v, shape[i][1]), Append(path, shape[i][1]))
       IN  IF r.issues # <<>>
           THEN << r >> \o [j \in 1..(Len(shape) - i) |-> Ok(Undefined)]
           ELSE << r >> \o ParseShapeFirstError(shape, v, i + 1, path)

ParseShape(shape, v, i, path) ==
  IF i > Len(shape) THEN <<>>
  ELSE << Parse(shape[i][2], Get(v, shape[i][1]), Append(path, shape[i][1])) >>
         \o ParseShape(shape, v, i + 1, path)

\* The length checks come first, then every element is parsed.
ParseArray(s, v, path) ==
  IF v.k # "array" THEN InvalidType("array", v, path)
  ELSE LET n == Len(v.e)
           small == IF s.min # NoLimit /\ n < s.min
                    THEN << Issue(path, "too_small",
                                  "Array must contain at least " \o ToString(s.min) \o " element(s)") >>
                    ELSE <<>>
           big == IF s.max # NoLimit /\ n > s.max
                  THEN << Issue(path, "too_big",
                                "Array must contain at most " \o ToString(s.max) \o " element(s)") >>
                  ELSE <<>>
           results == ParseItems(s.el, v.e, 1, path)
           status == MergeStatus(IF small \o big = <<>> THEN "valid" ELSE "dirty", results)
       IN  [status |-> status,
            value |-> IF status = "aborted" THEN Undefined
                      ELSE JArr([i \in 1..n |-> results[i].value]),
            issues |-> small \o big \o ConcatIssues(results, 1)]

\* (ParseObjectStrict has an issue for a key that is not in the shape.)
ParseObjectStrict(s, v, path) ==
  IF v.k # "object" THEN InvalidType("object", v, path)
  ELSE LET shape == s.shape
           results == ParseShape(shape, v, 1, path)
           unknown == DOMAIN v.f \ {shape[i][1] : i \in DOMAIN shape}
           extra == IF unknown = {} THEN <<>>
                    ELSE << Issue(path, "unrecognized_keys", "Unrecognized key(s) in object") >>
           status == MergeStatus(IF extra = <<>> THEN "valid" ELSE "dirty", results)
       IN  [status |-> status,
            value |-> IF status = "aborted" THEN Undefined ELSE v,
            issues |-> extra \o ConcatIssues(results, 1)]

\* Every key of the shape is parsed, whatever the others gave; keys that are
\* not in the shape are dropped; a key is set in the result when its value is
\* defined or the input had the key.
ParseObject(s, v, path) ==
  IF v.k # "object" THEN InvalidType("object", v, path)
  ELSE LET shape == s.shape
           results == ParseShape(shape, v, 1, path)
           status == MergeStatus("valid", results)
           set == {i \in DOMAIN shape :
                     results[i].value # Undefined \/ shape[i][1] \in DOMAIN v.f}
           at(key) == CHOOSE i \in set : shape[i][1] = key
       IN  [status |-> status,
            value |-> IF status = "aborted" THEN Undefined
                      ELSE JObj([key \in {shape[i][1] : i \in set} |-> results[at(key)].value]),
            issues |-> ConcatIssues(results, 1)]

\* (ParseOptionalAsRequired hands undefined to the inner schema.)
ParseOptionalAsRequired(s, v, path) == Parse(s.in, v, path)

ParseOptional(s, v, path) ==
  IF v.k = "undefined" THEN Ok(Undefined) ELSE Parse(s.in, v, path)

\* (ParseNullableAsAbsent gives undefined for null.)
ParseNullableAsAbsent(s, v, path) ==
  IF v.k = "null" THEN Ok(Undefined) ELSE Parse(s.in, v, path)

ParseNullable(s, v, path) ==
  IF v.k = "null" THEN Ok(JNull) ELSE Parse(s.in, v, path)

ParseDefault(s, v, path) ==
  Parse(s.in, IF v.k = "undefined" THEN s.value ELSE v, path)

\* .refine(check, {message}): the check is run on the parsed value unless the
\* inner schema aborted; a failed check is one issue at the schema's own path.
RunCheckAnyEducation(check, data) ==
  CASE check = "rootsOrEducation" ->
         Get(data, "roots") # Undefined \/ Get(data, "education") # Undefined

RunCheck(check, data) ==
  CASE check = "rootsOrEducation" ->
         \/ Get(data, "roots") # Undefined
         \/ /\ Get(data, "education") # Undefined
            /\ Len(Get(data, "education").e) > 0

ParseRefine(s, v, path) ==
  LET inner == Parse(s.in, v, path)
  IN  IF inner.status = "aborted" THEN inner
      ELSE IF RunCheck(s.check, inner.value) THEN inner
      ELSE [status |-> "dirty", value |-> inner.value,
            issues |-> Append(inner.issues, Issue(path, "custom", s.message))]

Parse(s, v, path) ==
  CASE s.t = "string" -> ParseString(s, v, path)
    [] s.t = "number" -> ParseNumber(s, v, path)
    [] s.t = "boolean" -> ParseBoolean(s, v, path)
    [] s.t = "enum" -> ParseEnum(s, v, path)
    [] s.t = "array" -> ParseArray(s, v, path)
    [] s.t = "object" -> ParseObject(s, v, path)
    [] s.t = "optional" -> ParseOptional(s, v, path)
    [] s.t = "nullable" -> ParseNullable(s, v, path)
    [] s.t = "default" -> ParseDefault(s, v, path)
    [] s.t = "refine" -> ParseRefine(s, v, path)

\* schema.safeParse(v): success only for a valid status.
SafeParse(s, v) ==
  LET r == Parse(s, v, <<>>)
  IN  IF r.status = "valid"
      THEN [success |-> TRUE, data |-> r.value, issues |-> <<>>]
      ELSE [success |-> FALSE, data |-> Undefined, issues |-> r.issues]

(***************************************************************************)
(* The schemas of src/schemas/profile.schema.ts.                           *)
(***************************************************************************)
ImpactStatSchema ==
  ZObject(<< <<"id", ZString>>, <<"value", ZString>>, <<"unit", ZString>>,
             <<"label", ZString>>, <<"detail", ZString>>,
             <<"icon", ZOptional(ZString)>> >>)

CtaLinkSchema ==
  ZObject(<< <<"label", ZString>>, <<"href", ZUrl>>, <<"icon", ZString>> >>)

\* z.array(ImpactStatSchema).min(3).max(4)
ImpactStatsOffByOne == ZArrayIn(ImpactStatSchema, 3, 5)
ImpactStatsSchema == ZArrayIn(ImpactStatSchema, 3, 4)

HeroSchema ==
  ZObject(<< <<"name", ZString>>, <<"headline", ZString>>, <<"tagline", ZString>>,
             <<"location", ZString>>,
             <<"impactStats", ImpactStatsSchema>>,
             <<"ctaLinks", ZArray(CtaLinkSchema)>> >>)

HighlightSchema ==
  ZObject(<< <<"title", ZString>>, <<"category", ZString>>, <<"context", ZString>>,
             <<"description", ZString>>, <<"mediaUrl", ZOptional(ZUrl)>> >>)

MetricSchema == ZObject(<< <<"value", ZString>>, <<"label", ZString>> >>)

EmploymentTypeEnum ==
  ZEnum({"full-time", "part-time", "contract", "internship", "freelance", "apprenticeship"})

CareerLevelWithoutExecutive ==
  ZEnum({"entry", "junior", "mid", "senior", "lead", "principal"})
CareerLevelEnum ==
  ZEnum({"entry", "junior", "mid", "senior", "lead", "principal", "executive"})

PeriodSchema == ZObject(<< <<"start", ZString>>, <<"end", ZNullable(ZString)>> >>)

DeepDiveSchema ==
  ZObject(<< <<"context", ZString>>,
             <<"technicalHighlights", ZArray(ZString)>>,
             <<"leadershipHighlights", ZOptional(ZArray(ZString))>>,
             <<"metrics", ZArray(MetricSchema)>> >>)

\* EmploymentTypeEnum.optional().default('full-time')
EmploymentTypeWithoutDefault == ZOptional(EmploymentTypeEnum)
EmploymentTypeField == ZDefault(ZOptional(EmploymentTypeEnum), JStr("full-time"))

ExperienceSchema ==
  ZObject(<< <<"id", ZString>>, <<"company", ZString>>, <<"role", ZString>>,
             <<"period", PeriodSchema>>,
             <<"employmentType", EmploymentTypeField>>,
             <<"careerLevel", ZOptional(CareerLevelEnum)>>,
             <<"isEarlyCareer", ZDefault(ZOptional(ZBoolean), JBool(FALSE))>>,
             <<"summary", ZString>>,
             <<"deepDive", DeepDiveSchema>>,
             <<"tags", ZArray(ZString)>> >>)

PhilosophySchema ==
  ZObject(<< <<"id", ZString>>, <<"title", ZString>>, <<"belief", ZString>>,
             <<"source", ZOptional(ZObject(<< <<"author", ZString>>, <<"work", ZString>> >>))>> >>)

SkillSchema ==
  ZObject(<< <<"name", ZString>>,
             <<"level", ZNumberIn(1, 5)>>,
             <<"highlight", ZDefault(ZBoolean, JBool(FALSE))>> >>)

SkillCategorySchema ==
  ZObject(<< <<"category", ZString>>, <<"skills", ZArray(SkillSchema)>> >>)

EducationTypeEnum ==
  ZEnum({"bachelor", "master", "doctorate", "associate", "certificate", "bootcamp",
         "self-taught", "other"})

EducationSchema ==
  ZObject(<< <<"id", ZString>>, <<"degree", ZString>>, <<"institution", ZString>>,
             <<"focus", ZString>>, <<"type", EducationTypeEnum>>,
             <<"period", PeriodSchema>>,
             <<"transferableInsight", ZOptional(ZString)>>,
             <<"highlights", ZOptional(ZArray(ZString))>> >>)

RootsSchema ==
  ZObject(<< <<"degree", ZString>>, <<"institution", ZString>>, <<"focus", ZString>>,
             <<"transferableInsight", ZString>> >>)

VolunteeringSchema ==
  ZObject(<< <<"id", ZString>>, <<"organization", ZString>>, <<"role", ZString>>,
             <<"period", PeriodSchema>>, <<"description", ZString>>,
             <<"impact", ZOptional(ZString)>>,
             <<"highlights", ZOptional(ZArray(ZString))>>,
             <<"tags", ZOptional(ZArray(ZString))>> >>)

GasTownRoleSchema ==
  ZObject(<< <<"name", ZString>>, <<"emoji", ZString>>, <<"description", ZString>> >>)

GasTownSchema ==
  ZObject(<< <<"name", ZString>>, <<"tagline", ZString>>, <<"description", ZString>>,
             <<"url", ZUrl>>, <<"roles", ZArray(GasTownRoleSchema)>> >>)

PolecatSchema ==
  ZObject(<< <<"name", ZString>>, <<"beads", ZNumber>>, <<"focus", ZArray(ZString)>> >>)

TimelineMilestoneSchema ==
  ZObject(<< <<"time", ZString>>, <<"date", ZString>>, <<"title", ZString>>,
             <<"description", ZString>>, <<"highlight", ZOptional(ZBoolean)>>,
             <<"beadsMerged", ZOptional(ZNumber)>> >>)

BuildStatsSchema ==
  ZObject(<< <<"beads", ZNumber>>, <<"agents", ZNumber>>, <<"commits", ZNumber>>,
             <<"duration", ZString>> >>)

AgentSchema == ZObject(<< <<"name", ZString>>, <<"contribution", ZString>> >>)

AgenticMetaSchema ==
  ZObject(<< <<"buildTimestamp", ZDatetime>>, <<"bundleSize", ZString>>,
             <<"sourceUrl", ZUrl>>, <<"lighthouseScore", ZOptional(ZNumber)>>,
             <<"agents", ZOptional(ZArray(AgentSchema))>>,
             <<"gasTown", ZOptional(GasTownSchema)>>,
             <<"polecats", ZOptional(ZArray(PolecatSchema))>>,
             <<"timeline", ZOptional(ZArray(TimelineMilestoneSchema))>>,
             <<"stats", ZOptional(BuildStatsSchema)>> >>)

\* z.array(PhilosophySchema).min(2).max(4)
PhilosophyListNoMax == [t |-> "array", el |-> PhilosophySchema, min |-> 2, max |-> NoLimit]
PhilosophyListSchema == ZArrayIn(PhilosophySchema, 2, 4)

ProfileObject ==
  ZObject(<< <<"hero", HeroSchema>>, <<"highlight", HighlightSchema>>,
             <<"experience", ZArray(ExperienceSchema)>>,
             <<"philosophy", PhilosophyListSchema>>,
             <<"skills", ZArray(SkillCategorySchema)>>,
             <<"roots", ZOptional(RootsSchema)>>,
             <<"education", ZOptional(ZArray(EducationSchema))>>,
             <<"volunteering", ZOptional(ZArray(VolunteeringSchema))>>,
             <<"meta", AgenticMetaSchema>> >>)

ProfileSchema ==
  ZRefine(ProfileObject, "rootsOrEducation",
          "Either roots (legacy) or education array must be provided")

(***************************************************************************)
(* JSON.stringify and JSON.parse, over tokens.  A key whose value is       *)
(* undefined is left out of an object; undefined in an array is written as *)
(* null.                                                                   *)
(***************************************************************************)
Tok(t) == [t |-> t]

RECURSIVE JsonStringify(_)
RECURSIVE StringifyMembers(_, _)
RECURSIVE StringifyElements(_, _)

StringifyMembers(v, keys) ==
  IF keys = {} THEN <<>>
  ELSE LET key == CHOOSE x \in keys : TRUE
       IN  << [t |-> "str", s |-> key], Tok(":") >> \o JsonStringify(v.f[key])
             \o (IF keys = {key} THEN <<>> ELSE << Tok(",") >>)
             \o StringifyMembers(v, keys \ {key})

StringifyElements(e, i) ==
  IF i > Len(e) THEN <<>>
  ELSE JsonStringify(IF e[i].k = "undefined" THEN JNull ELSE e[i])
         \o (IF i = Len(e) THEN <<>> ELSE << Tok(",") >>)
         \o StringifyElements(e, i + 1)

JsonStringify(v) ==
  CASE v.k = "string" -> << [t |-> "str", s |-> v.s] >>
    [] v.k = "number" -> << [t |-> "num", twice |-> v.twice] >>
    [] v.k = "boolean" -> << Tok(IF v.b THEN "true" ELSE "false") >>
    [] v.k = "null" -> << Tok("null") >>
    [] v.k = "array" -> << Tok("[") >> \o StringifyElements(v.e, 1) \o << Tok("]") >>
    [] v.k = "object" ->
         << Tok("{") >>
           \o StringifyMembers(v, {key \in DOMAIN v.f : v.f[key].k # "undefined"})
           \o << Tok("}") >>

\* Reading gives the value and the tokens after it.
RECURSIVE ReadValue(_)
RECURSIVE ReadMembers(_, _)
RECURSIVE ReadElements(_, _)

ReadMembers(ts, f) ==
  LET member == ReadValue(Tail(Tail(ts)))
      g == f @@ (ts[1].s :> member.v)
  IN  IF Head(member.rest).t = ","
      THEN ReadMembers(Tail(member.rest), g)
      ELSE [v |-> JObj(g), rest |-> Tail(member.rest)]

ReadElements(ts, e) ==
  LET element == ReadValue(ts)
  IN  IF Head(element.rest).t = ","
      THEN ReadElements(Tail(element.rest), Append(e, element.v))
      ELSE [v |-> JArr(Append(e, element.v)), rest |-> Tail(element.rest)]

ReadValue(ts) ==
  LET h == Head(ts)
  IN  CASE h.t = "str" -> [v |-> JStr(h.s), rest |-> Tail(ts)]
        [] h.t = "num" -> [v |-> JHalf(h.twice), rest |-> Tail(ts)]
        [] h.t = "true" -> [v |-> JBool(TRUE), rest |-> Tail(ts)]
        [] h.t = "false" -> [v |-> JBool(FALSE), rest |-> Tail(ts)]
        [] h.t = "null" -> [v |-> JNull, rest |-> Tail(ts)]
        [] h.t = "[" ->
             IF ts[2].t = "]" THEN [v |-> JArr(<<>>), rest |-> Tail(Tail(ts))]
             ELSE ReadElements(Tail(ts), <<>>)
        [] h.t = "{" ->
             IF ts[2].t = "}" THEN [v |-> JObj(<<>>), rest |-> Tail(Tail(ts))]
             ELSE ReadMembers(Tail(ts), <<>>)

JsonParse(ts) == ReadValue(ts).v

(***************************************************************************)
(* Documents.  BaseDoc is a small profile that satisfies every rule, after *)
(* the example of SPECIFICATION.md; the documents that are validated are   *)
(* BaseDoc with its roots and education chosen and up to two fields        *)
(* changed.                                                                *)
(***************************************************************************)
MaxLen == 5
MaxLevelTwice == 14
MaxEducation == 2

Stat(i) ==
  JObj([id |-> JStr("stat" \o ToString(i)), value |-> JStr("270+"), unit |-> JStr("hours"),
        label |-> JStr("Saved"), detail |-> JStr("per year")])

Belief(i) ==
  JObj([id |-> JStr("belief" \o ToString(i)), title |-> JStr("Impact Over Activity"),
        belief |-> JStr("I measure success by outcomes")])

Period == JObj([start |-> JStr("2016"), end |-> JNull])

Education(i) ==
  JObj([id |-> JStr("edu" \o ToString(i)), degree |-> JStr("M.Sc. Physics"),
        institution |-> JStr("University of Turku"), focus |-> JStr("Quantum Optics"),
        type |-> JStr("master"), period |-> Period])

Roots ==
  JObj([degree |-> JStr("M.Sc. Physics"), institution |-> JStr("University of Turku"),
        focus |-> JStr("Quantum Optics"), transferableInsight |-> JStr("Simple models")])

Experience ==
  JObj([id |-> JStr("exp1"), company |-> JStr("Digia"), role |-> JStr("Engineering Manager"),
        period |-> Period, summary |-> JStr("Led three teams"),
        deepDive |-> JObj([context |-> JStr("Flagship client"),
                           technicalHighlights |-> JArr(<< JStr("CI/CD") >>),
                           metrics |-> JArr(<< JObj([value |-> JStr("16"),
                                                     label |-> JStr("engineers")]) >>)]),
        tags |-> JArr(<< JStr("Leadership") >>)])

BaseDoc ==
  JObj([hero |-> JObj([name |-> JStr("Lauri"), headline |-> JStr("Engineering Manager"),
                       tagline |-> JStr("Calm precision"), location |-> JStr("Turku"),
                       impactStats |-> JArr([i \in 1..3 |-> Stat(i)]),
                       ctaLinks |-> JArr(<< JObj([label |-> JStr("GitHub"),
                                                  href |-> JStr("https://a.dev"),
                                                  icon |-> JStr("github")]) >>)]),
        highlight |-> JObj([title |-> JStr("Digia Award 2024"),
                            category |-> JStr("Senior Trainee"),
                            context |-> JStr("1 of 6 recipients"),
                            description |-> JStr("Continuous learning")]),
        experience |-> JArr(<< Experience >>),
        philosophy |-> JArr([i \in 1..2 |-> Belief(i)]),
        skills |-> JArr(<< JObj([category |-> JStr("Technical"),
                                 skills |-> JArr(<< JObj([name |-> JStr("TypeScript"),
                                                          level |-> JNum(3)]) >>)]) >>),
        meta |-> JObj([buildTimestamp |-> JStr("2026-01-15T10:30:00Z"),
                       bundleSize |-> JStr("48kb"),
                       sourceUrl |-> JStr("https://a.dev")])])

\* The array index a path segment names.
IndexOf(seg) == CHOOSE i \in 1..(MaxLen + 1) : Index(i) = seg

\* v with the value at path replaced by new (removed when new is undefined);
\* v is left as it is when the path leads nowhere.
RECURSIVE Update(_, _, _)
Update(v, path, new) ==
  IF path = <<>> THEN new
  ELSE IF v.k = "object"
       THEN LET key == Head(path)
                child == Update(Get(v, key), Tail(path), new)
            IN  IF child = Undefined
                THEN JObj([x \in DOMAIN v.f \ {key} |-> v.f[x]])
                ELSE JObj([x \in DOMAIN v.f \union {key} |->
                             IF x = key THEN child ELSE v.f[x]])
  ELSE IF v.k = "array" /\ \E i \in DOMAIN v.e : Index(i) = Head(path)
       THEN JArr([v.e EXCEPT ![IndexOf(Head(path))] =
                          Update(v.e[IndexOf(Head(path))], Tail(path), new)])
  ELSE v

Put(path, value) == [path |-> path, value |-> value]

RECURSIVE ApplyAll(_, _)
ApplyAll(edits, v) ==
  IF edits = <<>> THEN v
  ELSE ApplyAll(Tail(edits), Update(v, Head(edits).path, Head(edits).value))

LevelPath == <<"skills", "0", "skills", "0", "level">>
HighlightPath == <<"skills", "0", "skills", "0", "highlight">>
HrefPath == <<"hero", "ctaLinks", "0", "href">>
EmploymentTypePath == <<"experience", "0", "employmentType">>
CareerLevelPath == <<"experience", "0", "careerLevel">>
IsEarlyCareerPath == <<"experience", "0", "isEarlyCareer">>
EducationTypePath == <<"education", "0", "type">>

\* The strings the enum fields are given: the literals of each enum as the
\* tests list them (validTypes, validLevels), and strings that are no literal
\* of any: a literal in another case, and another word.
Literals(enum) ==
  CASE enum = "employmentType" ->
         {"full-time", "part-time", "contract", "internship", "freelance", "apprenticeship"}
    [] enum = "careerLevel" ->
         {"entry", "junior", "mid", "senior", "lead", "principal", "executive"}
    [] enum = "educationType" ->
         {"bachelor", "master", "doctorate", "associate", "certificate", "bootcamp",
          "self-taught", "other"}

OtherCase == {"Full-Time", "Senior", "MASTER"}
NotLiterals == OtherCase \union {"invalid-type"}
EnumSamples(enum) == Literals(enum) \union NotLiterals

Hrefs ==
  {"https://a.dev", "http://a.dev", "HTTPS://A.DEV", "mailto:a@b.c", "ftp://a.dev",
   "tel:1", "https://", "/about", "a.dev", "about", ""}

LevelEdits == {Put(LevelPath, JHalf(t)) : t \in 0..MaxLevelTwice}
StatsEdits == {Put(<<"hero", "impactStats">>, JArr([i \in 1..n |-> Stat(i)])) : n \in 0..MaxLen}
PhilosophyEdits == {Put(<<"philosophy">>, JArr([i \in 1..n |-> Belief(i)])) : n \in 0..MaxLen}
EnumEdits ==
  {Put(EmploymentTypePath, JStr(s)) : s \in EnumSamples("employmentType")}
    \union {Put(CareerLevelPath, JStr(s)) : s \in EnumSamples("careerLevel")}
    \union {Put(EducationTypePath, JStr(s)) : s \in EnumSamples("educationType")}
FlagEdits ==
  {Put(p, JBool(b)) : p \in {HighlightPath, IsEarlyCareerPath}, b \in BOOLEAN}
HrefEdits == {Put(HrefPath, JStr(s)) : s \in Hrefs}

\* Violations of other fields: a missing or wrongly typed field aborts the
\* value it is in, a failed check does not.
OtherViolations ==
  { Put(<<"hero", "name">>, Undefined),
    Put(<<"hero", "name">>, JNum(7)),
    Put(<<"meta">>, Undefined),
    Put(LevelPath, JNum(7)),
    Put(<<"meta", "sourceUrl">>, JStr("about")),
    Put(<<"meta", "buildTimestamp">>, JStr("2026-01-15")) }

Edits ==
  LevelEdits \union StatsEdits \union PhilosophyEdits \union EnumEdits
    \union FlagEdits \union HrefEdits \union OtherViolations

UpTo(one) == {<<>>} \union {<<e>> : e \in one}

\* BaseDoc with roots set or not, and education absent (n < 0) or of n entries.
WithEducation(v, roots, n) ==
  Update(Update(v, <<"roots">>, IF roots THEN Roots ELSE Undefined),
         <<"education">>,
         IF n < 0 THEN Undefined ELSE JArr([i \in 1..n |-> Education(i)]))

(***************************************************************************)
(* The state: the document as loaded, the validation result, the result's  *)
(* data written out as JSON, and the result of validating that again.      *)
(***************************************************************************)
VARIABLES pc, doc, result, json, result2

schemaVars == <<pc, doc, result, json, result2>>

(***************************************************************************)
(* The state of the components a validated profile is rendered by.         *)
(*   CountUp: its value prop, the isInView and prefersReducedMotion hooks, *)
(*     the count state, and the pending animation frames (for each, the    *)
(*     clock ticks since the effect that requested it).                    *)
(*   TimelineItem / Education: the entry prop, the period text rendered,   *)
(*     the isExpanded state, and the clicks and key presses on the header  *)
(*     button so far.                                                      *)
(*   KonamiCode: the meta prop, the expandedSection state, the view        *)
(*     rendered in the modal, and the last call of toggleSection.          *)
(*   SkillsChart: the skills prop and the chart rendered.                  *)
(*   The page a profile is rendered on: its environment (wall clock, time  *)
(*     zone, random source) and the view models rendered so far.           *)
(*   KonamiCode, the key tracker and hint: the isOpen, inputSequence and   *)
(*     showHint state, the pending timers and the clock in ms; of the      *)
(*     terminal variant, visibleLines and isComplete; and of the user, the *)
(*     last event, the tracked presses since the last untracked one, and   *)
(*     the presses that were not the next key of the sequence.             *)
(***************************************************************************)
VARIABLES value, isInView, prefersReducedMotion, count, frames
VARIABLES entry, periodText, isExpanded, events
VARIABLES meta, expandedSection, view, lastToggle
VARIABLES skills, chart
VARIABLES environment, views
VARIABLES isOpen, inputSequence, showHint, timers, now, visibleLines, isComplete
VARIABLES lastEvent, recent, strays

countUpVars == <<value, isInView, prefersReducedMotion, count, frames>>
timelineVars == <<entry, periodText, isExpanded, events>>
modalVars == <<meta, expandedSection, view, lastToggle>>
chartVars == <<skills, chart>>
renderVars == <<environment, views>>
konamiVars == <<isOpen, inputSequence, showHint, timers, now, visibleLines, isComplete,
                lastEvent, recent, strays>>
componentVars == <<countUpVars, timelineVars, modalVars, chartVars, renderVars, konamiVars>>

vars == <<schemaVars, componentVars>>

NoResult == [success |-> FALSE, data |-> Undefined, issues |-> <<>>]

\* Nothing is validated / no such component is mounted.
NoSchema ==
  pc = "idle" /\ doc = Undefined /\ result = NoResult /\ json = <<>> /\ result2 = NoResult
NoCountUp ==
  /\ value = <<>> /\ isInView = FALSE /\ prefersReducedMotion = FALSE
  /\ count = [n |-> 0, d |-> 0] /\ frames = {}
NoTimeline == entry = Undefined /\ periodText = <<>> /\ isExpanded = FALSE /\ events = <<>>
NoModal ==
  meta = Undefined /\ expandedSection = "null" /\ view = Undefined /\ lastToggle = Undefined
NoChart == skills = Undefined /\ chart = <<>>
NoRender == environment = Undefined /\ views = <<>>
NoKonami ==
  /\ isOpen = FALSE /\ inputSequence = <<>> /\ showHint = FALSE /\ timers = {} /\ now = 0
  /\ visibleLines = 0 /\ isComplete = FALSE
  /\ lastEvent = Undefined /\ recent = <<>> /\ strays = 0

Init ==
  /\ pc = "loaded"
  /\ \E roots \in BOOLEAN, n \in (0 - 1)..MaxEducation,
        first \in UpTo(Edits), second \in UpTo(OtherViolations) :
       doc = ApplyAll(first \o second, WithEducation(BaseDoc, roots, n))
  /\ result = NoResult
  /\ json = <<>>
  /\ result2 = NoResult
  /\ NoCountUp /\ NoTimeline /\ NoModal /\ NoChart /\ NoRender /\ NoKonami

\* ProfileSchema.safeParse(profileData)
Validate ==
  /\ pc = "loaded"
  /\ result' = SafeParse(ProfileSchema, doc)
  /\ pc' = "validated"
  /\ UNCHANGED <<doc, json, result2, componentVars>>

\* The validated value is written out as JSON.
Serialize ==
  /\ pc = "validated"
  /\ result.success
  /\ json' = JsonStringify(result.data)
  /\ pc' = "serialized"
  /\ UNCHANGED <<doc, result, result2, componentVars>>

\* The JSON is read back and validated again.
Revalidate ==
  /\ pc = "serialized"
  /\ result2' = SafeParse(ProfileSchema, JsonParse(json))
  /\ pc' = "revalidated"
  /\ UNCHANGED <<doc, result, json, componentVars>>

Next == Validate \/ Serialize \/ Revalidate

Spec == Init /\ [][Next]_vars

(***************************************************************************)
(* Properties of the validation.                                           *)
(***************************************************************************)
\* The value at path in v, undefined when the path leads nowhere.
RECURSIVE At(_, _)
At(v, path) ==
  IF path = <<>> THEN v
  ELSE IF v.k = "object" THEN At(Get(v, Head(path)), Tail(path))
  ELSE IF v.k = "array" /\ \E i \in DOMAIN v.e : Index(i) = Head(path)
       THEN At(v.e[IndexOf(Head(path))], Tail(path))
  ELSE Undefined

Validated == pc # "loaded"
IssueAt(path) == \E i \in DOMAIN result.issues : result.issues[i].path = path
RefineIssues == {i \in DOMAIN result.issues : result.issues[i].code = "custom"}

\* The document has neither roots nor an education array with an entry.
NeitherRootsNorEducation(d) ==
  /\ At(d, <<"roots">>) = Undefined
  /\ At(d, <<"education">>) \in {Undefined, JArr(<<>>)}

\* The document breaks no rule but, possibly, the one on roots and education.
OtherwiseValid(d) == SafeParse(ProfileObject, d).success

\* C1: a document with neither roots nor a non-empty education array is
\* rejected (an empty education array with no roots included); an otherwise
\* valid document with roots, a non-empty education array, or both is accepted.
C1_RootsOrEducation ==
  Validated =>
    /\ NeitherRootsNorEducation(doc) => ~result.success
    /\ (~NeitherRootsNorEducation(doc) /\ OtherwiseValid(doc)) => result.success

\* An otherwise valid document with education: [] and no roots was rejected,
\* with the roots/education issue alone.
C1_Witness ==
  /\ pc = "validated"
  /\ At(doc, <<"roots">>) = Undefined
  /\ At(doc, <<"education">>) = JArr(<<>>)
  /\ OtherwiseValid(doc)
  /\ ~result.success
  /\ Len(result.issues) = 1

\* C2: a document without hero.name whose first skill has level 7 is rejected
\* with at least two distinct issues, one at hero.name and one at the level.
C2_BothReported ==
  (Validated /\ At(doc, <<"hero", "name">>) = Undefined /\ At(doc, LevelPath) = JNum(7)) =>
    /\ ~result.success
    /\ \E i, j \in DOMAIN result.issues :
         /\ i # j
         /\ result.issues[i] # result.issues[j]
         /\ result.issues[i].path = <<"hero", "name">>
         /\ result.issues[j].path = LevelPath

C2_Witness ==
  /\ pc = "validated"
  /\ At(doc, <<"hero", "name">>) = Undefined
  /\ At(doc, LevelPath) = JNum(7)
  /\ Len(result.issues) = 2

\* C3: a document with a structural violation and with neither roots nor a
\* non-empty education is reported with its structural issues and exactly one
\* roots/education issue, whose path is empty, whatever the other issues are.
C3_RefineAlwaysReported ==
  (Validated /\ ~OtherwiseValid(doc) /\ NeitherRootsNorEducation(doc)) =>
    /\ Cardinality(RefineIssues) = 1
    /\ \A i \in RefineIssues : result.issues[i].path = <<>>
    /\ Len(result.issues) > 1

\* C4: a skill level is accepted if and only if it is an integer in 1..5, so
\* every level of a validated profile is one of 1, 2, 3, 4, 5.
C4_LevelIsInteger ==
  (Validated /\ result.success) =>
    At(result.data, LevelPath) \in {JNum(n) : n \in 1..5}

\* The profile with roots, one education entry and hero.impactStats or
\* philosophy set to an array of n entries.
WithStats(d, n) == Update(d, <<"hero", "impactStats">>, JArr([i \in 1..n |-> Stat(i)]))
WithPhilosophy(d, n) == Update(d, <<"philosophy">>, JArr([i \in 1..n |-> Belief(i)]))

\* C5: hero.impactStats is accepted exactly when its length is 3 or 4: a
\* document that is valid with three stats is valid with its own stats if and
\* only if they are 3 or 4, and every validated profile has 3 or 4 stats.
C5_ImpactStats ==
  LET n == Len(At(doc, <<"hero", "impactStats">>).e)
  IN  Validated =>
        /\ n \notin {3, 4} => ~result.success /\ IssueAt(<<"hero", "impactStats">>)
        /\ SafeParse(ProfileSchema, WithStats(doc, 3)).success =>
             (result.success <=> n \in {3, 4})
        /\ result.success => Len(At(result.data, <<"hero", "impactStats">>).e) \in {3, 4}

\* Documents with four stats were accepted, and one with five rejected for it alone.
C5_Witness ==
  /\ pc = "validated"
  /\ Len(At(doc, <<"hero", "impactStats">>).e) = 5
  /\ SafeParse(ProfileSchema, WithStats(doc, 4)).success
  /\ ~result.success
  /\ Len(result.issues) = 1

\* C6: philosophy is accepted exactly when its length is 2, 3 or 4; with 5
\* entries (or more) the document is rejected with an issue whose path is
\* philosophy and whose message states the maximum of 4.
C6_Philosophy ==
  LET n == Len(At(doc, <<"philosophy">>).e)
  IN  Validated =>
        /\ SafeParse(ProfileSchema, WithPhilosophy(doc, 2)).success =>
             (result.success <=> n \in {2, 3, 4})
        /\ n \notin {2, 3, 4} => ~result.success
        /\ n > 4 =>
             \E i \in DOMAIN result.issues :
               /\ result.issues[i].path = <<"philosophy">>
               /\ result.issues[i].code = "too_big"
               /\ result.issues[i].message = "Array must contain at most 4 element(s)"

C6_Witness ==
  /\ pc = "validated"
  /\ Len(At(doc, <<"philosophy">>).e) = 5
  /\ ~result.success
  /\ result.issues =
       << Issue(<<"philosophy">>, "too_big", "Array must contain at most 4 element(s)") >>

\* The rules of the schema, on the fields the documents of the model differ in.
SatisfiesRules(d) ==
  /\ At(d, <<"hero", "name">>).k = "string"
  /\ Len(At(d, <<"hero", "impactStats">>).e) \in {3, 4}
  /\ At(d, HrefPath) \in {JStr("https://a.dev"), JStr("http://a.dev"), JStr("mailto:a@b.c")}
  /\ Len(At(d, <<"philosophy">>).e) \in {2, 3, 4}
  /\ At(d, LevelPath) \in {JNum(n) : n \in 1..5}
  /\ At(d, HighlightPath) \in {Undefined, JBool(TRUE), JBool(FALSE)}
  /\ At(d, EmploymentTypePath) \in {Undefined} \union {JStr(s) : s \in Literals("employmentType")}
  /\ At(d, CareerLevelPath) \in {Undefined} \union {JStr(s) : s \in Literals("careerLevel")}
  /\ At(d, IsEarlyCareerPath) \in {Undefined, JBool(TRUE), JBool(FALSE)}
  /\ At(d, EducationTypePath) \in {Undefined} \union {JStr(s) : s \in Literals("educationType")}
  /\ ~NeitherRootsNorEducation(d)
  /\ At(d, <<"meta", "sourceUrl">>) = JStr("https://a.dev")
  /\ At(d, <<"meta", "buildTimestamp">>) = JStr("2026-01-15T10:30:00Z")

\* The value of a field that has a default: the one supplied, or the default.
Defaulted(d, path, default) ==
  IF At(d, path) = Undefined THEN default ELSE At(d, path)

\* C7: a document that satisfies every rule is accepted, and the value that is
\* returned has employmentType "full-time" and isEarlyCareer false where the
\* experience entry had none, highlight false where the skill had none, and
\* the supplied values where it had them.
C7_DefaultsApplied ==
  Validated =>
    /\ SatisfiesRules(doc) => result.success
    /\ result.success =>
         /\ At(result.data, EmploymentTypePath) = Defaulted(doc, EmploymentTypePath, JStr("full-time"))
         /\ At(result.data, IsEarlyCareerPath) = Defaulted(doc, IsEarlyCareerPath, JBool(FALSE))
         /\ At(result.data, HighlightPath) = Defaulted(doc, HighlightPath, JBool(FALSE))

\* A document without employmentType and isEarlyCareer, with highlight true,
\* was accepted.
C7_Witness ==
  /\ pc = "validated"
  /\ result.success
  /\ At(doc, EmploymentTypePath) = Undefined
  /\ At(doc, IsEarlyCareerPath) = Undefined
  /\ At(doc, HighlightPath) = JBool(TRUE)
  /\ At(result.data, EmploymentTypePath) = JStr("full-time")

\* C8: the value returned by a successful validation, written out as JSON and
\* validated again, is accepted and gives the same value.
C8_RoundTrip ==
  pc = "revalidated" => result2.success /\ result2.data = result.data

\* The round trip of a document in which defaults had to be filled in.
C8_Witness ==
  /\ pc = "revalidated"
  /\ result.data # doc
  /\ At(doc, EmploymentTypePath) = Undefined
  /\ At(result2.data, EmploymentTypePath) = JStr("full-time")

EnumPath(enum) ==
  CASE enum = "employmentType" -> EmploymentTypePath
    [] enum = "careerLevel" -> CareerLevelPath
    [] enum = "educationType" -> EducationTypePath

\* C9: employmentType, careerLevel and education[].type each accept exactly
\* their literals, compared case-sensitively: a document that is valid with a
\* literal in the field is valid with the string it has there if and only if
\* that string is a literal; any other string is an issue at the field.
C9_EnumLiterals ==
  Validated =>
    \A enum \in {"employmentType", "careerLevel", "educationType"} :
      LET v == At(doc, EnumPath(enum))
          lit == JStr(CHOOSE s \in Literals(enum) : TRUE)
      IN  v.k = "string" =>
            /\ v.s \notin Literals(enum) => ~result.success /\ IssueAt(EnumPath(enum))
            /\ SafeParse(ProfileSchema, Update(doc, EnumPath(enum), lit)).success =>
                 (result.success <=> v.s \in Literals(enum))

\* "Senior" (the literal "senior" in another case) was rejected as careerLevel
\* in a document that is valid with "senior".
C9_Witness ==
  /\ pc = "validated"
  /\ At(doc, CareerLevelPath) = JStr("Senior")
  /\ SafeParse(ProfileSchema, Update(doc, CareerLevelPath, JStr("senior"))).success
  /\ ~result.success
  /\ Len(result.issues) = 1

\* cs begins with the characters of prefix.
BeginsWith(cs, prefix) ==
  Len(cs) >= Len(prefix) /\ SubSeq(cs, 1, Len(prefix)) = prefix

\* C10: every hero.ctaLinks[].href of a validated profile begins with http:,
\* https: or mailto:; a mailto: href is never rejected, and a href that is no
\* absolute URI is rejected.
C10_HrefSchemes ==
  LET href == At(doc, HrefPath)
  IN  (Validated /\ href.k = "string") =>
        /\ result.success =>
             \E prefix \in {<<"h","t","t","p",":">>, <<"h","t","t","p","s",":">>,
                            <<"m","a","i","l","t","o",":">>} :
               BeginsWith(Chars(At(result.data, HrefPath).s), prefix)
        /\ BeginsWith(Chars(href.s), <<"m","a","i","l","t","o",":">>) => ~IssueAt(HrefPath)
        /\ ColonAt(Chars(href.s)) = 0 => ~result.success /\ IssueAt(HrefPath)

(***************************************************************************)
(* Required, optional and unknown fields.  FullDoc is the base profile     *)
(* with roots, one education entry and every optional field present; the   *)
(* documents validated here are FullDoc with up to two fields removed,     *)
(* given a value of another type or added under an unknown key, and the    *)
(* document of the test that has hero.name only.                           *)
(***************************************************************************)
Volunteering ==
  JObj([id |-> JStr("vol1"), organization |-> JStr("Code Club"), role |-> JStr("Mentor"),
        period |-> JObj([start |-> JStr("2019-09"), end |-> JStr("2021-05")]),
        description |-> JStr("Weekly sessions")])

GasTown ==
  JObj([name |-> JStr("Gas Town"), tagline |-> JStr("Agents at work"),
        description |-> JStr("Multi-agent workspace"), url |-> JStr("https://a.dev"),
        roles |-> JArr(<< JObj([name |-> JStr("Mayor"), emoji |-> JStr("M"),
                                description |-> JStr("Coordinates")]) >>)])

\* The fields declared .optional(), each with a value its schema accepts; a
\* field comes after the field it is in.
OptionalFields ==
  << Put(<<"hero", "impactStats", "0", "icon">>, JStr("clock")),
     Put(<<"highlight", "mediaUrl">>, JStr("https://a.dev")),
     Put(<<"experience", "0", "careerLevel">>, JStr("lead")),
     Put(<<"experience", "0", "deepDive", "leadershipHighlights">>, JArr(<< JStr("Mentoring") >>)),
     Put(<<"philosophy", "0", "source">>,
         JObj([author |-> JStr("Drucker"), work |-> JStr("The Effective Executive")])),
     Put(<<"education", "0", "transferableInsight">>, JStr("Simple models")),
     Put(<<"education", "0", "highlights">>, JArr(<< JStr("Thesis") >>)),
     Put(<<"volunteering">>, JArr(<< Volunteering >>)),
     Put(<<"volunteering", "0", "impact">>, JStr("40 students")),
     Put(<<"volunteering", "0", "highlights">>, JArr(<< JStr("Curriculum") >>)),
     Put(<<"volunteering", "0", "tags">>, JArr(<< JStr("Teaching") >>)),
     Put(<<"meta", "lighthouseScore">>, JNum(98)),
     Put(<<"meta", "agents">>,
         JArr(<< JObj([name |-> JStr("builder"), contribution |-> JStr("components")]) >>)),
     Put(<<"meta", "gasTown">>, GasTown),
     Put(<<"meta", "polecats">>,
         JArr(<< JObj([name |-> JStr("furiosa"), beads |-> JNum(12),
                       focus |-> JArr(<< JStr("schema") >>)]) >>)),
     Put(<<"meta", "timeline">>,
         JArr(<< JObj([time |-> JStr("10:30"), date |-> JStr("2026-01-15"),
                       title |-> JStr("First bead"), description |-> JStr("Scaffold")]) >>)),
     Put(<<"meta", "timeline", "0", "highlight">>, JBool(TRUE)),
     Put(<<"meta", "timeline", "0", "beadsMerged">>, JNum(3)),
     Put(<<"meta", "stats">>,
         JObj([beads |-> JNum(40), agents |-> JNum(6), commits |-> JNum(120),
               duration |-> JStr("3 days")])) >>

FullDoc == ApplyAll(OptionalFields, WithEducation(BaseDoc, TRUE, 1))

\* const invalidProfile = { hero: { name: 'Test' } }
HeroOnlyDoc == JObj([hero |-> JObj([name |-> JStr("Test")])])

\* The paths of the objects in v at every depth, v itself included.
RECURSIVE ObjectPaths(_)
ObjectPaths(v) ==
  IF v.k = "object"
  THEN {<<>>} \union UNION {{<<key>> \o p : p \in ObjectPaths(v.f[key])} : key \in DOMAIN v.f}
  ELSE IF v.k = "array"
  THEN UNION {{<<Index(i)>> \o p : p \in ObjectPaths(v.e[i])} : i \in DOMAIN v.e}
  ELSE {}

\* The paths of the fields of the objects in v.
FieldPaths(v) == UNION {{Append(p, key) : key \in DOMAIN At(v, p).f} : p \in ObjectPaths(v)}

Front(p) == SubSeq(p, 1, Len(p) - 1)

OptionalPaths == {OptionalFields[i].path : i \in DOMAIN OptionalFields}

\* The fields of FullDoc that no schema declares optional: every field but
\* the optional ones above, roots and education.
RequiredPaths == FieldPaths(FullDoc) \ (OptionalPaths \union {<<"roots">>, <<"education">>})

\* period.end is z.string().nullable().
NullablePaths == {p \in RequiredPaths : p[Len(p)] = "end"}

\* A value whose type is not the type of v.
WrongType(v) == IF v.k \in {"string", "null"} THEN JNum(7) ELSE JStr("wrong")

UnknownKey == "unknownField"
UnknownValues == {JStr("x"), JNull, JObj([a |-> JNum(1)])}

OptionalRemovals == {Put(p, Undefined) : p \in OptionalPaths}
RequiredRemovals == {Put(p, Undefined) : p \in RequiredPaths}
WrongTypes == {Put(p, WrongType(At(FullDoc, p))) : p \in RequiredPaths}
UnknownFields ==
  {Put(Append(p, UnknownKey), JStr("x")) : p \in ObjectPaths(FullDoc)}
    \union {Put(<<UnknownKey>>, v) : v \in UnknownValues}

InitFields ==
  /\ pc = "loaded"
  /\ \/ doc = HeroOnlyDoc
     \/ \E first, second \in UpTo(OptionalRemovals \union UnknownFields) :
          doc = ApplyAll(first \o second, FullDoc)
     \/ \E first \in UpTo({Put(<<"volunteering">>, Undefined), Put(<<UnknownKey>>, JNull)}),
           second \in UpTo(RequiredRemovals \union WrongTypes) :
          doc = ApplyAll(first \o second, FullDoc)
  /\ result = NoResult
  /\ json = <<>>
  /\ result2 = NoResult
  /\ NoCountUp /\ NoTimeline /\ NoModal /\ NoChart /\ NoRender /\ NoKonami

SpecFields == InitFields /\ [][Next]_vars

\* d lacks a required field of an object it has.
MissingRequired(d) ==
  \E p \in RequiredPaths : At(d, Front(p)).k = "object" /\ At(d, p) = Undefined

\* d has a required field whose value is of another type than the schema's.
WronglyTyped(d) ==
  \E p \in RequiredPaths :
    /\ At(d, p) # Undefined
    /\ At(d, p).k # At(FullDoc, p).k
    /\ ~(p \in NullablePaths /\ At(d, p).k \in {"string", "null"})

\* d with the optional fields it lacks put back.
RECURSIVE Restore(_, _)
Restore(fields, d) ==
  IF fields = <<>> THEN d
  ELSE Restore(Tail(fields),
               IF At(d, Head(fields).path) = Undefined
               THEN Update(d, Head(fields).path, Head(fields).value)
               ELSE d)

\* d is FullDoc but for optional fields that are absent.
OnlyOptionalAbsent(d) == Restore(OptionalFields, d) = FullDoc

\* C11: a document in which a required field is absent or of the wrong type
\* (such as the document that has hero.name only) is rejected, and a document
\* that differs from a valid one only by absent optional fields is accepted.
C11_RequiredAndOptional ==
  Validated =>
    /\ (MissingRequired(doc) \/ WronglyTyped(doc)) => ~result.success
    /\ OnlyOptionalAbsent(doc) => result.success

\* An optional field alone was absent and the document was accepted.
C11_Witness ==
  /\ pc = "validated"
  /\ doc # FullDoc
  /\ OnlyOptionalAbsent(doc)
  /\ At(doc, <<"volunteering">>) = Undefined
  /\ result.success

\* The document with hero.name only was rejected.
HeroOnlyRejected ==
  /\ pc = "validated"
  /\ doc = HeroOnlyDoc
  /\ MissingRequired(doc)
  /\ ~result.success

\* v without the fields under the unknown key, at every depth.
RECURSIVE StripUnknown(_)
StripUnknown(v) ==
  IF v.k = "object"
  THEN JObj([key \in DOMAIN v.f \ {UnknownKey} |-> StripUnknown(v.f[key])])
  ELSE IF v.k = "array" THEN JArr([i \in DOMAIN v.e |-> StripUnknown(v.e[i])])
  ELSE v

HasUnknown(d) == StripUnknown(d) # d

\* C12: a document that is valid but for fields the schema does not name, at
\* whatever depth, is accepted, and the validated value is without them.
C12_UnknownFieldsIgnored ==
  (Validated /\ HasUnknown(doc) /\ OnlyOptionalAbsent(StripUnknown(doc))) =>
    /\ result.success
    /\ ~HasUnknown(result.data)

\* Unknown fields in an array element three objects deep and at the top.
C12_Witness ==
  /\ pc = "validated"
  /\ At(doc, <<"meta", "gasTown", "roles", "0", UnknownKey>>) # Undefined
  /\ At(doc, <<UnknownKey>>) # Undefined
  /\ result.success

(***************************************************************************)
(* CountUp and parseNumericValue (components/skills/SkillsChart.tsx).      *)
(* A string is the sequence of its characters; a character outside ASCII   *)
(* is written by its name ("euro", "pound", "emdash").  A number is        *)
(* n / 10^d, with d as small as can be.                                    *)
(***************************************************************************)
Steps == 4
MaxDelta == 2
MaxValueLen == 3

RECURSIVE Pow(_, _)
Pow(b, e) == IF e = 0 THEN 1 ELSE b * Pow(b, e - 1)

Pow10(d) == Pow(10, d)

RECURSIVE Normal(_)
Normal(x) ==
  IF x.d > 0 /\ x.n % 10 = 0 THEN Normal([n |-> x.n \div 10, d |-> x.d - 1]) ELSE x

Zero == [n |-> 0, d |-> 0]

DigitValue(c) == CHOOSE i \in 0..9 : ToString(i) = c

RECURSIVE DigitsValue(_)
DigitsValue(cs) ==
  IF cs = <<>> THEN 0
  ELSE 10 * DigitsValue(SubSeq(cs, 1, Len(cs) - 1)) + DigitValue(cs[Len(cs)])

\* parseFloat of digits, or of digits "." digits
ParseFloat(whole, fraction) ==
  Normal([n |-> DigitsValue(whole \o fraction), d |-> Len(fraction)])

RECURSIVE IntToChars(_)
IntToChars(k) ==
  IF k < 10 THEN << ToString(k) >> ELSE Append(IntToChars(k \div 10), ToString(k % 10))

\* `${count}`: the digits of the whole part, then "." and the d digits of the
\* fraction when there is one.
NumToChars(x) ==
  LET whole == IntToChars(x.n \div Pow10(x.d))
      digits == IntToChars(x.n % Pow10(x.d))
  IN  IF x.d = 0 THEN whole
      ELSE whole \o << "." >> \o [i \in 1..(x.d - Len(digits)) |-> "0"] \o digits

Glyphs == {"euro", "$", "pound"}
LineTerminators == {"\n"}

\* The index after the digits that begin at index i of v.
RECURSIVE RunEnd(_, _)
RunEnd(v, i) == IF i <= Len(v) /\ v[i] \in Digits THEN RunEnd(v, i + 1) ELSE i

\* The index of the first line terminator of v at or after index i.
RECURSIVE LineEnd(_, _)
LineEnd(v, i) == IF i <= Len(v) /\ v[i] \notin LineTerminators THEN LineEnd(v, i + 1) ELSE i

\* (ParseNumericValueWholeOnly matches /^([€$£]?)(\d+)(.*)/.)
ParseNumericValueWholeOnly(v) ==
  LET g == IF v # <<>> /\ v[1] \in Glyphs THEN 1 ELSE 0
      wholeEnd == RunEnd(v, g + 1)
  IN  IF wholeEnd = g + 1 THEN [prefix |-> <<>>, numeric |-> Zero, suffix |-> v]
      ELSE [prefix |-> SubSeq(v, 1, g),
            numeric |-> ParseFloat(SubSeq(v, g + 1, wholeEnd - 1), <<>>),
            suffix |-> SubSeq(v, wholeEnd, LineEnd(v, wholeEnd) - 1)]

\* value.match(/^([€$£]?)(\d+(?:\.\d+)?)(.*)/): the glyph if the value begins
\* with one, the digits after it, a point and digits if they follow, and the
\* characters up to the end of the line; no match without a digit there.
ParseNumericValue(v) ==
  LET g == IF v # <<>> /\ v[1] \in Glyphs THEN 1 ELSE 0
      wholeEnd == RunEnd(v, g + 1)
      hasFraction == /\ wholeEnd <= Len(v)
                     /\ v[wholeEnd] = "."
                     /\ RunEnd(v, wholeEnd + 1) > wholeEnd + 1
      numberEnd == IF hasFraction THEN RunEnd(v, wholeEnd + 1) ELSE wholeEnd
  IN  IF wholeEnd = g + 1 THEN [prefix |-> <<>>, numeric |-> Zero, suffix |-> v]
      ELSE [prefix |-> SubSeq(v, 1, g),
            numeric |-> ParseFloat(SubSeq(v, g + 1, wholeEnd - 1),
                                   IF hasFraction THEN SubSeq(v, wholeEnd + 1, numberEnd - 1)
                                   ELSE <<>>),
            suffix |-> SubSeq(v, numberEnd, LineEnd(v, numberEnd) - 1)]

\* Math.floor(easeOut * numeric) with progress k / Steps,
\* easeOut = 1 - (1 - progress)^3.
EaseOutFloor(k, numeric) ==
  [n |-> ((Pow(Steps, 3) - Pow(Steps - k, 3)) * numeric.n)
           \div (Pow(Steps, 3) * Pow10(numeric.d)),
   d |-> 0]

\* What animate sets the count to, k ticks after its effect.
Animate(k, numeric) == IF k < Steps THEN EaseOutFloor(k, numeric) ELSE numeric

\* (EffectAlwaysAnimates requests a frame whatever numeric is.)
EffectAlwaysAnimates(inView, reducedMotion) ==
  IF ~inView THEN [count |-> count, frames |-> frames]
  ELSE IF reducedMotion
  THEN [count |-> ParseNumericValue(value).numeric, frames |-> frames]
  ELSE [count |-> count, frames |-> frames \union {0}]

\* The effect of CountUp, run when isInView or prefersReducedMotion changes:
\* the count and the pending frames it leaves.
Effect(inView, reducedMotion) ==
  LET numeric == ParseNumericValue(value).numeric
  IN  IF ~inView THEN [count |-> count, frames |-> frames]
      ELSE IF reducedMotion \/ numeric = Zero THEN [count |-> numeric, frames |-> frames]
      ELSE [count |-> count, frames |-> frames \union {0}]

\* const displayValue = numeric === 0 ? value : `${prefix}${count}${suffix}`
DisplayValue ==
  LET parsed == ParseNumericValue(value)
  IN  IF parsed.numeric = Zero THEN value
      ELSE parsed.prefix \o NumToChars(count) \o parsed.suffix

\* The stat values of the example profile, a value without a number, and
\* every string of up to MaxValueLen characters of a small alphabet.
ExampleValues ==
  { <<"2","7","0","+">>, <<"euro","0",".","5","M","+">>, <<"9","9",".","9","9","%">>,
    <<"1","6">>, <<"P","r","e","s","e","n","t">> }
Alphabet == {"euro", "0", "5", ".", "+", "\n"}
Values == ExampleValues \union UNION {[1..k -> Alphabet] : k \in 0..MaxValueLen}

InitCountUp ==
  /\ value \in Values
  /\ isInView = FALSE
  /\ prefersReducedMotion \in BOOLEAN
  /\ count = Zero
  /\ frames = {}
  /\ NoSchema /\ NoTimeline /\ NoModal /\ NoChart /\ NoRender /\ NoKonami

\* useInView(ref, { once: true }): the element comes into view.
EnterView ==
  /\ ~isInView
  /\ isInView' = TRUE
  /\ count' = Effect(TRUE, prefersReducedMotion).count
  /\ frames' = Effect(TRUE, prefersReducedMotion).frames
  /\ UNCHANGED <<value, prefersReducedMotion, schemaVars, timelineVars, modalVars, chartVars, renderVars, konamiVars>>

\* useReducedMotion(): the user's preference changes.
ChangeReducedMotion ==
  /\ prefersReducedMotion' = ~prefersReducedMotion
  /\ count' = Effect(isInView, ~prefersReducedMotion).count
  /\ frames' = Effect(isInView, ~prefersReducedMotion).frames
  /\ UNCHANGED <<value, isInView, schemaVars, timelineVars, modalVars, chartVars, renderVars, konamiVars>>

\* An animation frame, delta ticks after the last: every pending animate
\* runs, in the order of the effects; the count is what the last one set.
AnimationFrame ==
  /\ frames # {}
  /\ \E delta \in 1..MaxDelta :
       LET after == {k + delta : k \in frames}
           last == CHOOSE k \in after : \A other \in after : k <= other
       IN  /\ frames' = {k \in after : k < Steps}
           /\ count' = Animate(last, ParseNumericValue(value).numeric)
  /\ UNCHANGED <<value, isInView, prefersReducedMotion,
                 schemaVars, timelineVars, modalVars, chartVars, renderVars, konamiVars>>

NextCountUp == EnterView \/ ChangeReducedMotion \/ AnimationFrame

SpecCountUp == InitCountUp /\ [][NextCountUp]_vars

(***************************************************************************)
(* Properties of CountUp.                                                  *)
(***************************************************************************)
HasDigit(v) == \E i \in DOMAIN v : v[i] \in Digits

\* cs is digits, or digits, a point and digits.
IsDecimal(cs) ==
  /\ cs # <<>>
  /\ \A i \in DOMAIN cs : cs[i] \in Digits \union {"."}
  /\ Cardinality({i \in DOMAIN cs : cs[i] = "."}) <= 1
  /\ cs[1] # "." /\ cs[Len(cs)] # "."

DecimalValue(cs) ==
  LET point == IF \E i \in DOMAIN cs : cs[i] = "." THEN CHOOSE i \in DOMAIN cs : cs[i] = "."
               ELSE Len(cs) + 1
  IN  ParseFloat(SubSeq(cs, 1, point - 1), SubSeq(cs, point + 1, Len(cs)))

\* The index at which the longest decimal number that begins at i ends.
NumberFrom(v, i) ==
  CHOOSE j \in i..Len(v) :
    /\ IsDecimal(SubSeq(v, i, j))
    /\ \A longer \in (j + 1)..Len(v) : ~IsDecimal(SubSeq(v, i, longer))

LeadingGlyph(v) == IF v # <<>> /\ v[1] \in Glyphs THEN 1 ELSE 0

\* cs up to its first line terminator.
FirstLine(cs) ==
  SubSeq(cs, 1, CHOOSE m \in 0..Len(cs) :
                  /\ \A i \in 1..m : cs[i] \notin LineTerminators
                  /\ m = Len(cs) \/ cs[m + 1] \in LineTerminators)

\* What the three example values are split into.
ExampleSplits ==
  { [value |-> <<"2","7","0","+">>,
     parsed |-> [prefix |-> <<>>, numeric |-> [n |-> 270, d |-> 0], suffix |-> <<"+">>]],
    [value |-> <<"euro","0",".","5","M","+">>,
     parsed |-> [prefix |-> <<"euro">>, numeric |-> [n |-> 5, d |-> 1], suffix |-> <<"M","+">>]],
    [value |-> <<"9","9",".","9","9","%">>,
     parsed |-> [prefix |-> <<>>, numeric |-> [n |-> 9999, d |-> 2], suffix |-> <<"%">>]] }

\* C13, as stated: the prefix is the leading currency glyph if there is one,
\* the numeric the first decimal number that occurs anywhere in the value,
\* and the suffix everything after that number.
C13_FirstNumber ==
  LET parsed == ParseNumericValue(value)
      first == CHOOSE i \in DOMAIN value :
                 value[i] \in Digits /\ \A j \in 1..(i - 1) : value[j] \notin Digits
      last == NumberFrom(value, first)
  IN  /\ parsed.prefix = SubSeq(value, 1, LeadingGlyph(value))
      /\ HasDigit(value) =>
           /\ parsed.numeric = DecimalValue(SubSeq(value, first, last))
           /\ parsed.suffix = SubSeq(value, last + 1, Len(value))

\* C13, amended: a value that begins with a digit, or with a currency glyph
\* and then a digit, is split into that glyph (or nothing), the decimal number
\* that begins there, and what follows it up to the end of the line; any other
\* value has no prefix, numeric 0 and itself as the suffix.  The three example
\* values are split as the claim says.
C13_LeadingNumber ==
  LET parsed == ParseNumericValue(value)
      g == LeadingGlyph(value)
  IN  /\ IF g < Len(value) /\ value[g + 1] \in Digits
         THEN LET last == NumberFrom(value, g + 1)
              IN  parsed = [prefix |-> SubSeq(value, 1, g),
                            numeric |-> DecimalValue(SubSeq(value, g + 1, last)),
                            suffix |-> FirstLine(SubSeq(value, last + 1, Len(value)))]
         ELSE parsed = [prefix |-> <<>>, numeric |-> Zero, suffix |-> value]
      /\ \A e \in ExampleSplits : value = e.value => parsed = e.parsed

\* The value with a prefix, a fraction and a suffix was split and shown.
C13_Witness ==
  /\ isInView
  /\ value = <<"euro","0",".","5","M","+">>
  /\ ParseNumericValue(value).numeric = [n |-> 5, d |-> 1]
  /\ DisplayValue = value

\* C14: a value without a digit is shown as it is in every state of CountUp,
\* and no animation frame is pending for it in any state.
C14_StaticWithoutNumber ==
  ~HasDigit(value) => DisplayValue = value /\ frames = {}

\* "Present" came into view with motion allowed.
C14_Witness ==
  /\ value = <<"P","r","e","s","e","n","t">>
  /\ isInView
  /\ ~prefersReducedMotion
  /\ DisplayValue = value

\* C15: once the count-up has finished (the element is in view, and reduced
\* motion is preferred or no animation frame is pending), the text shown is
\* the value.
C15_FinalTextIsValue ==
  (isInView /\ (prefersReducedMotion \/ frames = {})) => DisplayValue = value

(***************************************************************************)
(* formatPeriod of TimelineItem (components/experience/TimelineItem.tsx)   *)
(* and of the Education entry, and the expand/collapse of a TimelineItem.  *)
(***************************************************************************)
MaxMonth == 13
MaxEvents == 3

\* What is left over when v is cut at every sep: v.split(sep)
RECURSIVE Split(_, _)
Split(v, sep) ==
  IF \E i \in DOMAIN v : v[i] = sep
  THEN LET at == CHOOSE i \in DOMAIN v : v[i] = sep /\ \A j \in 1..(i - 1) : v[j] # sep
       IN  << SubSeq(v, 1, at - 1) >> \o Split(SubSeq(v, at + 1, Len(v)), sep)
  ELSE << v >>

\* const [year, month] = parts: an element that is not there is undefined.
Element(parts, i) ==
  IF i <= Len(parts) THEN parts[i] ELSE <<"u","n","d","e","f","i","n","e","d">>

\* parseInt: the number the leading digits write, NaN without any.
ParseInt(cs) ==
  IF RunEnd(cs, 1) = 1 THEN [nan |-> TRUE, n |-> 0]
  ELSE [nan |-> FALSE, n |-> DigitsValue(SubSeq(cs, 1, RunEnd(cs, 1) - 1))]

\* new Date(year, monthIndex): invalid when either is NaN; a year 0..99 is
\* 19xx; a month index outside 0..11 carries into the year.
NewDate(year, monthIndex) ==
  IF year.nan \/ monthIndex.nan THEN [valid |-> FALSE, year |-> 0, month |-> 0]
  ELSE LET months == 12 * (IF year.n \in 0..99 THEN 1900 + year.n ELSE year.n) + monthIndex.n
       IN  [valid |-> TRUE, year |-> months \div 12, month |-> months % 12]

ShortMonths ==
  << <<"J","a","n">>, <<"F","e","b">>, <<"M","a","r">>, <<"A","p","r">>, <<"M","a","y">>,
     <<"J","u","n">>, <<"J","u","l">>, <<"A","u","g">>, <<"S","e","p">>, <<"O","c","t">>,
     <<"N","o","v">>, <<"D","e","c">> >>

InvalidDate == <<"I","n","v","a","l","i","d"," ","D","a","t","e">>

\* date.toLocaleDateString('en-US', { month: 'short', year: 'numeric' }), or
\* with { year: 'numeric' } alone.
ToLocaleDateString(date, withMonth) ==
  IF ~date.valid THEN InvalidDate
  ELSE IF withMonth THEN ShortMonths[date.month + 1] \o <<" ">> \o IntToChars(date.year)
  ELSE IntToChars(date.year)

\* (FormatDateMonthAsIndex takes the month for the month index.)
FormatDateMonthAsIndex(dateStr) ==
  LET parts == Split(dateStr, "-")
  IN  ToLocaleDateString(NewDate(ParseInt(Element(parts, 1)), ParseInt(Element(parts, 2))),
                         TRUE)

\* (FormatDateParsedAsUTC is new Date(dateStr), which reads "YYYY-MM" as
\* midnight UTC, shown in the time zone of the page: west of Greenwich that
\* is the evening before.)
FormatDateParsedAsUTC(dateStr) ==
  LET parts == Split(dateStr, "-")
      year == ParseInt(Element(parts, 1))
      month == ParseInt(Element(parts, 2))
      back == IF environment.timeZone < 0 THEN 2 ELSE 1
  IN  ToLocaleDateString(NewDate(year, [month EXCEPT !.n = @ - back]), TRUE)

\* formatDate of TimelineItem
FormatDate(dateStr) ==
  LET parts == Split(dateStr, "-")
      year == ParseInt(Element(parts, 1))
      month == ParseInt(Element(parts, 2))
  IN  ToLocaleDateString(NewDate(year, [month EXCEPT !.n = @ - 1]), TRUE)

\* formatDate of the Education entry: a string without "-" as it is
FormatDateOfEducation(dateStr) ==
  IF \A i \in DOMAIN dateStr : dateStr[i] # "-" THEN dateStr
  ELSE LET parts == Split(dateStr, "-")
           year == ParseInt(Element(parts, 1))
           month == ParseInt(Element(parts, 2))
       IN  ToLocaleDateString(NewDate(year, [month EXCEPT !.n = @ - 1]), FALSE)

\* period.end is a string or null
Null == <<"null">>
Dash == <<" ", "emdash", " ">>
Present == <<"P","r","e","s","e","n","t">>

\* `${formatDate(start)} — ${end ? formatDate(end) : 'Present'}`
FormatPeriod(kind, start, end) ==
  LET formatDate(dateStr) == IF kind = "experience" THEN FormatDate(dateStr)
                             ELSE FormatDateOfEducation(dateStr)
  IN  formatDate(start) \o Dash \o (IF end \notin {Null, <<>>} THEN formatDate(end) ELSE Present)

\* The period strings: the empty string, bare years, and a year with a month
\* 00..MaxMonth.
Years == {2016, 2022, 2023}
TwoDigits(m) == << ToString(m \div 10), ToString(m % 10) >>
DateStrings ==
  {<<>>} \union {IntToChars(y) : y \in Years}
    \union {IntToChars(y) \o <<"-">> \o TwoDigits(m) : y \in Years, m \in 0..MaxMonth}

Entries == [kind : {"experience", "education"}, start : DateStrings,
            end : DateStrings \union {Null}]

\* The periods of P6: { start: "2016", end: null } and
\* { start: "2022-03", end: "2023-11" }.
ExampleEntries ==
  { [kind |-> "experience", start |-> <<"2","0","1","6">>, end |-> Null],
    [kind |-> "experience", start |-> <<"2","0","2","2","-","0","3">>,
     end |-> <<"2","0","2","3","-","1","1">>] }

InitPeriod ==
  /\ entry \in Entries
  /\ periodText = <<>>
  /\ isExpanded = FALSE
  /\ events = <<>>
  /\ NoSchema /\ NoCountUp /\ NoModal /\ NoChart /\ NoRender /\ NoKonami

InitTimelineItem ==
  /\ entry \in ExampleEntries
  /\ periodText = <<>>
  /\ isExpanded = FALSE
  /\ events = <<>>
  /\ NoSchema /\ NoCountUp /\ NoModal /\ NoChart /\ NoRender /\ NoKonami

\* The entry is rendered: {formatPeriod(period.start, period.end)}
Render ==
  /\ periodText = <<>>
  /\ periodText' = FormatPeriod(entry.kind, entry.start, entry.end)
  /\ UNCHANGED <<entry, isExpanded, events, schemaVars, countUpVars, modalVars, chartVars, renderVars, konamiVars>>

\* const handleToggle = () => { setIsExpanded(!isExpanded); }
HandleToggle(expanded) == ~expanded

\* (HandleKeyDownDefaultKept does not call e.preventDefault().)
HandleKeyDownDefaultKept(key, expanded) ==
  [isExpanded |-> IF key \in {"Enter", " "} THEN HandleToggle(expanded) ELSE expanded,
   defaultPrevented |-> FALSE]

\* handleKeyDown: the state it sets and whether it prevented the default.
HandleKeyDown(key, expanded) ==
  IF key \in {"Enter", " "}
  THEN [isExpanded |-> HandleToggle(expanded), defaultPrevented |-> TRUE]
  ELSE [isExpanded |-> expanded, defaultPrevented |-> FALSE]

Keys == {"Enter", " ", "Tab", "Escape", "a"}

\* The keys whose default on a focused button is a click.
ActivationKeys == {"Enter", " "}

\* <button onClick={handleToggle}>: a click on the header button.
Click ==
  /\ periodText # <<>>
  /\ Len(events) < MaxEvents
  /\ isExpanded' = HandleToggle(isExpanded)
  /\ events' = Append(events, "click")
  /\ UNCHANGED <<entry, periodText, schemaVars, countUpVars, modalVars, chartVars, renderVars, konamiVars>>

\* <button onKeyDown={handleKeyDown}>: a key press on the focused header
\* button; unless the handler prevented it, the browser clicks the button for
\* an activation key.
KeyDown ==
  /\ periodText # <<>>
  /\ Len(events) < MaxEvents
  /\ \E key \in Keys :
       LET handled == HandleKeyDown(key, isExpanded)
       IN  /\ isExpanded' = IF ~handled.defaultPrevented /\ key \in ActivationKeys
                            THEN HandleToggle(handled.isExpanded)
                            ELSE handled.isExpanded
           /\ events' = Append(events, key)
  /\ UNCHANGED <<entry, periodText, schemaVars, countUpVars, modalVars, chartVars, renderVars, konamiVars>>

NextPeriod == Render

SpecPeriod == InitPeriod /\ [][NextPeriod]_vars

NextTimelineItem == Render \/ Click \/ KeyDown

SpecTimelineItem == InitTimelineItem /\ [][NextTimelineItem]_vars

(***************************************************************************)
(* Properties of the period text and of the expand/collapse.               *)
(***************************************************************************)
Rendered == periodText # <<>>

\* The period text before and after the dash.
DashAt == CHOOSE i \in DOMAIN periodText : periodText[i] = "emdash"
StartText == SubSeq(periodText, 1, DashAt - 2)
EndText == SubSeq(periodText, DashAt + 2, Len(periodText))

\* YYYY, and YYYY-MM with a month 01..12
IsYear(cs) == Len(cs) = 4 /\ \A i \in 1..4 : cs[i] \in Digits
IsYearMonth(cs) ==
  /\ Len(cs) = 7
  /\ IsYear(SubSeq(cs, 1, 4))
  /\ cs[5] = "-"
  /\ \E m \in 1..12 : SubSeq(cs, 6, 7) = TwoDigits(m)

MonthAndYear(cs) ==
  ShortMonths[DigitsValue(SubSeq(cs, 6, 7))] \o <<" ">> \o SubSeq(cs, 1, 4)

\* C16: the period of an experience entry is shown as start, a dash and the
\* end; a null end is shown as Present, and a start or end that is a bare
\* year is shown unchanged.
C16_YearOnlyUnchanged ==
  (Rendered /\ entry.kind = "experience") =>
    /\ entry.end = Null => EndText = Present
    /\ IsYear(entry.start) => StartText = entry.start
    /\ IsYear(entry.end) => EndText = entry.end

\* C17, as stated: a YYYY-MM start or end of a period, of whatever entry, is
\* shown as the month's name and the year.
C17_MonthNameOnBothEnds ==
  Rendered =>
    /\ IsYearMonth(entry.start) => StartText = MonthAndYear(entry.start)
    /\ IsYearMonth(entry.end) => EndText = MonthAndYear(entry.end)

\* C17, amended: a YYYY-MM start or end (month 01..12) of the period of an
\* experience entry is shown as the month's short name and the year; that of
\* an education entry is shown as the year alone; neither as the raw text.
C17_MonthNameForExperience ==
  Rendered =>
    LET shown(cs) == IF entry.kind = "experience" THEN MonthAndYear(cs)
                     ELSE SubSeq(cs, 1, 4)
    IN  /\ IsYearMonth(entry.start) => StartText = shown(entry.start) /\ StartText # entry.start
        /\ IsYearMonth(entry.end) => EndText = shown(entry.end) /\ EndText # entry.end

\* { start: "2022-03", end: "2023-11" } of an experience entry was shown as
\* Mar 2022 - Nov 2023.
C17_Witness ==
  /\ entry = [kind |-> "experience", start |-> <<"2","0","2","2","-","0","3">>,
              end |-> <<"2","0","2","3","-","1","1">>]
  /\ periodText = <<"M","a","r"," ","2","0","2","2"," ","emdash"," ",
                    "N","o","v"," ","2","0","2","3">>

\* The clicks and the Enter and Space presses so far.
Activations == {i \in DOMAIN events : events[i] \in {"click", "Enter", " "}}

\* C20: the item is collapsed at first, and every click, Enter press and
\* Space press on the header button flips it exactly once: it is expanded
\* exactly when the number of these so far is odd.
C20_FlipsOncePerPress ==
  isExpanded <=> Cardinality(Activations) % 2 = 1

\* Enter, then Space: collapsed again.
C20_Witness ==
  /\ events = <<"Enter", " ">>
  /\ ~isExpanded

(***************************************************************************)
(* The content of the build-log modal of KonamiCode (part_007).            *)
(***************************************************************************)
MaxItems == 2

\* Whether a value counts as true in a condition.
Truthy(v) ==
  CASE v.k \in {"undefined", "null"} -> FALSE
    [] v.k = "boolean" -> v.b
    [] v.k = "number" -> v.twice # 0
    [] v.k = "string" -> v.s # ""
    [] v.k \in {"array", "object"} -> TRUE

EnhancedFields == {"gasTown", "polecats", "timeline", "stats"}

\* (HasEnhancedDataWithoutStats is gasTown && polecats && timeline.)
HasEnhancedDataWithoutStats(m) ==
  Truthy(Get(m, "gasTown")) /\ Truthy(Get(m, "polecats")) /\ Truthy(Get(m, "timeline"))

\* const hasEnhancedData = gasTown && polecats && timeline && stats
HasEnhancedData(m) ==
  /\ Truthy(Get(m, "gasTown")) /\ Truthy(Get(m, "polecats"))
  /\ Truthy(Get(m, "timeline")) /\ Truthy(Get(m, "stats"))

\* The members of its prop that the content of a section reads when it is
\* rendered (HowItWorksContent, TimelineContent, AgentCreditsContent), those
\* StatsBar reads, and those the legacy view reads.
ContentReads(section) ==
  CASE section = "how-it-works" ->
         {<<"gasTown", "description">>, <<"gasTown", "roles">>, <<"gasTown", "url">>}
    [] section = "timeline" -> {<<"timeline", "map">>, <<"timeline", "length">>}
    [] section = "agents" -> {<<"polecats", "map">>}
    [] section = "null" -> {}
StatsBarReads ==
  {<<"stats", "beads">>, <<"stats", "agents">>, <<"stats", "commits">>, <<"stats", "duration">>}
LegacyReads == {<<"sourceUrl", "replace">>}

Sections == {"how-it-works", "timeline", "agents"}

\* The content of the open modal: the enhanced view with the content of the
\* expanded section, or the legacy view; the stats bar if there are stats.
\* Reading a member of undefined throws.  expanded is the sections given
\* isExpanded={expandedSection === id} true.
ModalContent(m, section) ==
  LET enhanced == HasEnhancedData(m)
      statsBar == Truthy(Get(m, "stats"))
      reads == (IF enhanced THEN ContentReads(section) ELSE LegacyReads)
                 \union (IF statsBar THEN StatsBarReads ELSE {})
  IN  [branch |-> IF enhanced THEN "enhanced" ELSE "legacy",
       statsBar |-> statsBar,
       expanded |-> IF enhanced THEN {id \in Sections : section = id} ELSE {},
       reads |-> reads,
       threw |-> \E r \in reads : Get(m, r[1]).k \in {"undefined", "null"}]

\* The meta of BaseDoc with each of the four fields absent or present, the
\* lists of 0..MaxItems entries.
Metas ==
  LET several(path) == {JArr([i \in 1..n |-> At(FullDoc, path)]) : n \in 0..MaxItems}
  IN  { ApplyAll(<< Put(<<"gasTown">>, g), Put(<<"polecats">>, p),
                    Put(<<"timeline">>, t), Put(<<"stats">>, s) >>,
                 At(BaseDoc, <<"meta">>)) :
          g \in {Undefined, GasTown},
          p \in {Undefined} \union several(<<"meta", "polecats", "0">>),
          t \in {Undefined} \union several(<<"meta", "timeline", "0">>),
          s \in {Undefined, At(FullDoc, <<"meta", "stats">>)} }

InitModal ==
  /\ meta \in Metas
  /\ expandedSection = "how-it-works"
  /\ view = Undefined
  /\ lastToggle = Undefined
  /\ NoSchema /\ NoCountUp /\ NoTimeline /\ NoChart /\ NoRender /\ NoKonami

\* The modal is open and its content is rendered.
RenderModal ==
  /\ view = Undefined
  /\ view' = ModalContent(meta, expandedSection)
  /\ UNCHANGED <<meta, expandedSection, lastToggle, schemaVars, countUpVars, timelineVars,
                 chartVars, renderVars, konamiVars>>

\* (ToggledAlwaysOpens is prev => sectionId.)
ToggledAlwaysOpens(prev, sectionId) == sectionId

\* prev => prev === sectionId ? null : sectionId
Toggled(prev, sectionId) == IF prev = sectionId THEN "null" ELSE sectionId

\* toggleSection, from the header of a section of the enhanced view (of the
\* modal, and of GasTownSection, which has the same state and handler).
ToggleSection ==
  /\ view # Undefined
  /\ view.branch = "enhanced"
  /\ \E sectionId \in Sections :
       /\ expandedSection' = Toggled(expandedSection, sectionId)
       /\ lastToggle' = [sectionId |-> sectionId, prev |-> expandedSection]
       /\ view' = ModalContent(meta, expandedSection')
  /\ UNCHANGED <<meta, schemaVars, countUpVars, timelineVars, chartVars, renderVars, konamiVars>>

NextModal == RenderModal \/ ToggleSection

SpecModal == InitModal /\ [][NextModal]_vars

\* C18: the modal shows the enhanced view exactly when gasTown, polecats,
\* timeline and stats are all present, and the legacy view otherwise; what is
\* rendered reads no member of a field that is absent.
C18_EnhancedIffAllFour ==
  view # Undefined =>
    /\ view.branch = "enhanced" <=> \A f \in EnhancedFields : Get(meta, f) # Undefined
    /\ view.branch = "legacy" <=> \E f \in EnhancedFields : Get(meta, f) = Undefined
    /\ \A r \in view.reads : Get(meta, r[1]) # Undefined
    /\ ~view.threw

\* With stats alone present the legacy view and the stats bar were rendered.
C18_Witness ==
  /\ view # Undefined
  /\ Get(meta, "stats") # Undefined
  /\ \A f \in EnhancedFields \ {"stats"} : Get(meta, f) = Undefined
  /\ view.branch = "legacy"
  /\ view.statsBar

(***************************************************************************)
(* SkillsChart (components/skills/SkillsChart.tsx): the categories in      *)
(* order, each with its colours.                                           *)
(***************************************************************************)
MaxCategories == 2

CATEGORY_COLORS ==
  [Technical |-> [bar |-> "#2563eb", bg |-> "#dbeafe"],
   Leadership |-> [bar |-> "#059669", bg |-> "#d1fae5"],
   Domain |-> [bar |-> "#d97706", bg |-> "#fef3c7"]]

DEFAULT_COLOR == [bar |-> "#6b7280", bg |-> "#f3f4f6"]

\* The properties every object literal inherits from Object.prototype.
ObjectPrototype ==
  {"constructor", "toString", "toLocaleString", "valueOf", "hasOwnProperty",
   "isPrototypeOf", "propertyIsEnumerable", "__proto__"}

\* What a member of Object.prototype gives for bar and bg.
NoColor == [bar |-> "undefined", bg |-> "undefined"]

\* const colors = CATEGORY_COLORS[category.category] || DEFAULT_COLOR: an own
\* property, else an inherited one (a function or object, which counts as
\* true), else the default.
Colors(category) ==
  IF category \in DOMAIN CATEGORY_COLORS THEN CATEGORY_COLORS[category]
  ELSE IF category \in ObjectPrototype THEN NoColor
  ELSE DEFAULT_COLOR

\* skills.map((category) => ...): a group for each category, in order, with
\* its colours and its skills in order.
SkillsChart(categories) ==
  [i \in DOMAIN categories |->
     [category |-> categories[i].category,
      colors |-> Colors(categories[i].category),
      skills |-> [j \in DOMAIN categories[i].skills |-> categories[i].skills[j].name]]]

CategoryNames ==
  {"Technical", "Leadership", "Domain", "Design", "technical", "", "constructor", "toString"}

SkillsOf(name) ==
  IF name = "Technical"
  THEN << [name |-> "TypeScript", level |-> 5, highlight |-> TRUE],
          [name |-> "React", level |-> 4, highlight |-> FALSE] >>
  ELSE IF name = "" THEN <<>>
  ELSE << [name |-> name \o " skill", level |-> 3, highlight |-> FALSE] >>

InitChart ==
  /\ \E n \in 0..MaxCategories : \E names \in [1..n -> CategoryNames] :
       skills = [i \in 1..n |-> [category |-> names[i], skills |-> SkillsOf(names[i])]]
  /\ chart = <<>>
  /\ NoSchema /\ NoCountUp /\ NoTimeline /\ NoModal /\ NoRender /\ NoKonami

\* <SkillsChart skills={skills} /> is rendered.
RenderChart ==
  /\ chart = <<>>
  /\ skills # <<>>
  /\ chart' = SkillsChart(skills)
  /\ UNCHANGED <<skills, schemaVars, countUpVars, timelineVars, modalVars, renderVars, konamiVars>>

NextChart == RenderChart

SpecChart == InitChart /\ [][NextChart]_vars

\* C19: the chart has the categories in the order of the document, each with
\* its skills in order, and a colour for every category: its own for
\* Technical, Leadership and Domain, the default for any other name.
C19_GroupedAndColoured ==
  chart # <<>> =>
    /\ Len(chart) = Len(skills)
    /\ \A i \in DOMAIN skills :
         /\ chart[i].category = skills[i].category
         /\ chart[i].skills = [j \in DOMAIN skills[i].skills |-> skills[i].skills[j].name]
         /\ chart[i].colors = IF skills[i].category \in {"Technical", "Leadership", "Domain"}
                              THEN CATEGORY_COLORS[skills[i].category]
                              ELSE DEFAULT_COLOR

(***************************************************************************)
(* The view model of a profile: what formatPeriod, parseNumericValue, the  *)
(* colour lookup and the meta branch give for the same profile, rendered   *)
(* again and again while the clock runs and the page is looked at in other *)
(* time zones.                                                             *)
(***************************************************************************)
MaxRenders == 2

ClockTimes == {0, 1}
TimeZones == {0 - 8, 2}
RandomValues == {0, 1}

\* What a function could read besides its arguments: Date.now(), the time
\* zone of the page, Math.random().
Environments == [now : ClockTimes, timeZone : TimeZones, random : RandomValues]

\* The data-to-view functions applied to the profile.
ViewModel(e, v, categories, m) ==
  [period |-> FormatPeriod(e.kind, e.start, e.end),
   numeric |-> ParseNumericValue(v),
   colors |-> [i \in DOMAIN categories |-> Colors(categories[i].category)],
   branch |-> IF HasEnhancedData(m) THEN "enhanced" ELSE "legacy"]

ProfileEntries ==
  ExampleEntries \union
    { [kind |-> "education", start |-> <<"2","0","1","6","-","0","1">>, end |-> <<"2","0","2","2">>] }
ProfileValues ==
  { <<"2","7","0","+">>, <<"euro","0",".","5","M","+">>, <<"P","r","e","s","e","n","t">> }
ProfileCategories == {"Technical", "Design", "constructor"}

InitRender ==
  /\ entry \in ProfileEntries
  /\ value \in ProfileValues
  /\ \E name \in ProfileCategories :
       skills = << [category |-> name, skills |-> SkillsOf(name)] >>
  /\ \E g \in {Undefined, GasTown} :
       meta = ApplyAll(<< Put(<<"gasTown">>, g) >>, At(FullDoc, <<"meta">>))
  /\ environment \in Environments
  /\ views = <<>>
  /\ periodText = <<>> /\ isExpanded = FALSE /\ events = <<>>
  /\ isInView = FALSE /\ prefersReducedMotion = FALSE
  /\ count = [n |-> 0, d |-> 0] /\ frames = {}
  /\ expandedSection = "null" /\ view = Undefined /\ lastToggle = Undefined
  /\ chart = <<>>
  /\ NoSchema /\ NoKonami

\* The profile is rendered in the environment of the moment.
RenderViewModel ==
  /\ Len(views) < MaxRenders
  /\ views' = Append(views, [environment |-> environment,
                             model |-> ViewModel(entry, value, skills, meta)])
  /\ UNCHANGED <<environment, schemaVars, countUpVars, timelineVars, modalVars, chartVars,
                 konamiVars>>

\* Time passes, the page is opened elsewhere, the random source moves on.
EnvironmentChanges ==
  /\ \E other \in Environments \ {environment} :
       /\ other.now >= environment.now
       /\ environment' = other
  /\ UNCHANGED <<views, schemaVars, countUpVars, timelineVars, modalVars, chartVars,
                 konamiVars>>

NextRender == RenderViewModel \/ EnvironmentChanges

SpecRender == InitRender /\ [][NextRender]_vars

MaxStrays == 1
MaxQuanta == 7

KONAMI_SEQUENCE ==
  << "ArrowUp", "ArrowUp", "ArrowDown", "ArrowDown", "ArrowLeft", "ArrowRight",
     "ArrowLeft", "ArrowRight", "KeyB", "KeyA" >>

TrackedKeys == {"ArrowUp", "ArrowDown", "ArrowLeft", "ArrowRight", "KeyB", "KeyA"}

HintDelay == 30000
HideDelay == 5000

\* seq.slice(-n)
Slice(seq, n) == IF Len(seq) <= n THEN seq ELSE SubSeq(seq, Len(seq) - n + 1, Len(seq))

\* (CheckSequenceLengthOnly looks at the length alone.)
CheckSequenceLengthOnly(sequence) == Len(sequence) >= Len(KONAMI_SEQUENCE)

\* checkSequence
CheckSequence(sequence) ==
  IF Len(sequence) < Len(KONAMI_SEQUENCE) THEN FALSE
  ELSE LET recentKeys == Slice(sequence, Len(KONAMI_SEQUENCE))
       IN  \A i \in DOMAIN recentKeys : recentKeys[i] = KONAMI_SEQUENCE[i]

\* (InFieldInputOnly is e.target instanceof HTMLInputElement.)
InFieldInputOnly(e) == e.target = "input"

\* e.target instanceof HTMLInputElement || e.target instanceof HTMLTextAreaElement
InField(e) == e.target \in {"input", "textarea"}

\* (KonamiHandleKeyDownKeepingBuffer returns at an untracked key without
\* setInputSequence([]).)
KonamiHandleKeyDownKeepingBuffer(e, prev, open) ==
  IF InField(e) \/ e.code \notin TrackedKeys
  THEN [inputSequence |-> prev, isOpen |-> open, matched |-> FALSE]
  ELSE LET newSequence == Slice(Append(prev, e.code), Len(KONAMI_SEQUENCE))
       IN  IF CheckSequence(newSequence)
           THEN [inputSequence |-> <<>>, isOpen |-> TRUE, matched |-> TRUE]
           ELSE [inputSequence |-> newSequence, isOpen |-> open, matched |-> FALSE]

\* handleKeyDown of KonamiCode: the inputSequence and isOpen it leaves, and
\* whether the sequence matched.
KonamiHandleKeyDown(e, prev, open) ==
  IF InField(e) THEN [inputSequence |-> prev, isOpen |-> open, matched |-> FALSE]
  ELSE IF e.code \notin TrackedKeys
  THEN [inputSequence |-> <<>>, isOpen |-> open, matched |-> FALSE]
  ELSE LET newSequence == Slice(Append(prev, e.code), Len(KONAMI_SEQUENCE))
       IN  IF CheckSequence(newSequence)
           THEN [inputSequence |-> <<>>, isOpen |-> TRUE, matched |-> TRUE]
           ELSE [inputSequence |-> newSequence, isOpen |-> open, matched |-> FALSE]

\* (HandleEscapeIgnored does nothing.)
HandleEscapeIgnored(e, open, next) == next

\* handleEscape, which sees the isOpen of the last render: the isOpen it
\* leaves, next being what handleKeyDown left.
HandleEscape(e, open, next) == IF e.code = "Escape" /\ open THEN FALSE ELSE next

\* (HintVisibleWhileOpen is showHint alone.)
HintVisibleWhileOpen == showHint

\* {showHint && !isOpen && ...}
HintVisible == showHint /\ ~isOpen

Codes == TrackedKeys \union {"Escape", "KeyC"}
Targets == {"body", "input", "textarea"}
KeyboardEvents == [code : Codes, target : Targets]

\* Of the user: the tracked presses outside a field since the last untracked
\* one, the last ten of them.
Recent(e) ==
  IF e.target # "body" THEN recent
  ELSE IF e.code \notin TrackedKeys THEN <<>>
  ELSE Slice(Append(recent, e.code), Len(KONAMI_SEQUENCE))

\* The key that continues the sequence after the presses so far.
Expected ==
  LET fits(k) == /\ k <= Len(recent)
                 /\ SubSeq(recent, Len(recent) - k + 1, Len(recent)) = SubSeq(KONAMI_SEQUENCE, 1, k)
      k == CHOOSE k \in 0..(Len(KONAMI_SEQUENCE) - 1) :
             fits(k) /\ \A l \in (k + 1)..(Len(KONAMI_SEQUENCE) - 1) : ~fits(l)
  IN  KONAMI_SEQUENCE[k + 1]

Event(type, code, target) ==
  [type |-> type, code |-> code, target |-> target, wasOpen |-> isOpen,
   before |-> inputSequence]

\* The component is mounted: useState, and the effect that starts the
\* 30-second timer.
InitKonami ==
  /\ isOpen = FALSE
  /\ inputSequence = <<>>
  /\ showHint = FALSE
  /\ now = 0
  /\ timers = {[callback |-> "showHint", at |-> HintDelay]}
  /\ visibleLines = 0
  /\ isComplete = FALSE
  /\ lastEvent = [type |-> "mount", code |-> "", target |-> "", wasOpen |-> FALSE,
                  before |-> <<>>]
  /\ recent = <<>>
  /\ strays = 0
  /\ NoSchema /\ NoCountUp /\ NoTimeline /\ NoModal /\ NoChart /\ NoRender

\* A keydown reaches the two listeners on window.  The user types the
\* sequence, but for MaxStrays presses of any key at any element.
PressKey(e, terminal) ==
  LET expected == e.target = "body" /\ e.code = Expected
      tracked == KonamiHandleKeyDown(e, inputSequence, isOpen)
  IN  /\ expected \/ strays < MaxStrays
      /\ strays' = IF expected THEN strays ELSE strays + 1
      /\ inputSequence' = tracked.inputSequence
      /\ isOpen' = HandleEscape(e, isOpen, tracked.isOpen)
      /\ visibleLines' = IF terminal /\ tracked.matched THEN 0 ELSE visibleLines
      /\ isComplete' = IF terminal /\ tracked.matched THEN FALSE ELSE isComplete
      /\ recent' = Recent(e)
      /\ lastEvent' = Event("keydown", e.code, e.target)
      /\ UNCHANGED <<showHint, timers, now, schemaVars, countUpVars, timelineVars, modalVars,
                     chartVars, renderVars>>

KonamiKeyDown == \E e \in KeyboardEvents : PressKey(e, FALSE)

\* onClick={() => setIsOpen(false)} of the backdrop and of the close button,
\* which are there while the modal is open.
ClickToClose(element) ==
  /\ isOpen
  /\ isOpen' = FALSE
  /\ lastEvent' = Event("click", element, element)
  /\ UNCHANGED <<inputSequence, showHint, timers, now, visibleLines, isComplete, recent, strays,
                 schemaVars, countUpVars, timelineVars, modalVars, chartVars, renderVars>>

ClickBackdrop == ClickToClose("backdrop")
ClickClose == ClickToClose("close")

\* HideDelay passes; the timer that is due runs: setShowHint(true), after
\* which the effect on showHint starts the 5-second timer, or
\* setShowHint(false).
Quantum == HideDelay
AdvanceClock ==
  /\ now < MaxQuanta * Quantum
  /\ now' = now + Quantum
  /\ LET due == {t \in timers : t.at <= now'}
     IN  IF \E t \in due : t.callback = "showHint"
         THEN /\ showHint' = TRUE
              /\ timers' = (timers \ due) \union {[callback |-> "hideHint", at |-> now' + HideDelay]}
         ELSE IF \E t \in due : t.callback = "hideHint"
         THEN /\ showHint' = FALSE
              /\ timers' = timers \ due
         ELSE UNCHANGED <<showHint, timers>>
  /\ lastEvent' = Event("timer", "", "")
  /\ UNCHANGED <<isOpen, inputSequence, visibleLines, isComplete, recent, strays,
                 schemaVars, countUpVars, timelineVars, modalVars, chartVars, renderVars>>

NextKonami == KonamiKeyDown \/ ClickBackdrop \/ ClickClose \/ AdvanceClock

SpecKonami == InitKonami /\ [][NextKonami]_vars

\* The last event was a key press outside a field, of a tracked key.
TrackedPress ==
  /\ lastEvent.type = "keydown"
  /\ lastEvent.target \notin {"input", "textarea"}
  /\ lastEvent.code \in {"ArrowUp", "ArrowDown", "ArrowLeft", "ArrowRight", "KeyB", "KeyA"}

\* The last event was a key press outside a field, of another key.
UntrackedPress ==
  /\ lastEvent.type = "keydown"
  /\ lastEvent.target \notin {"input", "textarea"}
  /\ lastEvent.code \notin {"ArrowUp", "ArrowDown", "ArrowLeft", "ArrowRight", "KeyB", "KeyA"}

FieldPress == lastEvent.type = "keydown" /\ lastEvent.target \in {"input", "textarea"}

TheSequence ==
  << "ArrowUp", "ArrowUp", "ArrowDown", "ArrowDown", "ArrowLeft", "ArrowRight",
     "ArrowLeft", "ArrowRight", "KeyB", "KeyA" >>

\* The last event opened the modal.
Opened == isOpen /\ ~lastEvent.wasOpen

\* C22: a key press finds the modal closed and opens it exactly when it is a
\* tracked press and the ten latest tracked presses, with no untracked press
\* among them, are the Konami sequence, whatever was pressed before them; the
\* buffer is then empty.
C22_OpensOnSequence ==
  (lastEvent.type = "keydown" /\ ~lastEvent.wasOpen) =>
    /\ isOpen <=> (TrackedPress /\ recent = TheSequence)
    /\ isOpen => inputSequence = <<>>

\* The sequence opened the modal with a tracked key pressed before it, the
\* buffer being full.
C22_Witness ==
  /\ Opened
  /\ lastEvent.code = "KeyA"
  /\ Len(lastEvent.before) = Len(TheSequence)
  /\ lastEvent.before[1] = "KeyB"
  /\ inputSequence = <<>>

\* C23: an untracked key pressed outside a field empties the buffer, and the
\* modal opens only on the last of ten tracked presses since, which are the
\* sequence from its first key.
C23_UntrackedKeyResets ==
  /\ UntrackedPress => inputSequence = <<>> /\ isOpen = (lastEvent.wasOpen /\ lastEvent.code # "Escape")
  /\ Opened => Len(recent) = Len(TheSequence) /\ recent[1] = TheSequence[1]

\* An untracked key came after the first nine keys of the sequence.
C23_Witness ==
  /\ UntrackedPress
  /\ lastEvent.code = "KeyC"
  /\ lastEvent.before = SubSeq(TheSequence, 1, Len(TheSequence) - 1)
  /\ inputSequence = <<>>
  /\ ~isOpen

\* C24 as stated: a key press in an input or textarea leaves the buffer and
\* isOpen as they were, whichever key it is.
C24_FieldPressIgnored ==
  FieldPress => inputSequence = lastEvent.before /\ isOpen = lastEvent.wasOpen

\* C24: a key press in an input or textarea leaves the buffer as it was and
\* does not open the modal; it closes the modal only if the key is Escape.
C24_FieldPressNotTracked ==
  FieldPress =>
    /\ inputSequence = lastEvent.before
    /\ isOpen => lastEvent.wasOpen
    /\ (lastEvent.wasOpen /\ ~isOpen) => lastEvent.code = "Escape"

\* The last key of the sequence was pressed in a textarea after the other
\* nine, and the modal stayed closed.
C24_Witness ==
  /\ FieldPress
  /\ lastEvent.target = "textarea"
  /\ lastEvent.code = "KeyA"
  /\ lastEvent.before = SubSeq(TheSequence, 1, Len(TheSequence) - 1)
  /\ inputSequence = lastEvent.before
  /\ ~isOpen

\* C25: Escape, a click on the backdrop and a click on the close button close
\* the open modal; Escape leaves a closed modal closed; and a closed modal
\* opens only on the press that completes the sequence anew.
C25_ClosesAndStaysClosed ==
  /\ (lastEvent.type = "click" /\ lastEvent.code \in {"backdrop", "close"}) => ~isOpen
  /\ (lastEvent.type = "keydown" /\ lastEvent.code = "Escape") => ~isOpen
  /\ Opened => (TrackedPress /\ lastEvent.code = "KeyA" /\ recent = TheSequence)

\* Escape closed the open modal.
C25_Witness ==
  /\ lastEvent.type = "keydown"
  /\ lastEvent.code = "Escape"
  /\ lastEvent.wasOpen
  /\ ~isOpen

\* The modal was opened, closed by a click, and opened again.
C25_Reopened ==
  /\ Opened
  /\ strays = 0
  /\ now = 0
  /\ Len(lastEvent.before) = Len(TheSequence) - 1

\* C26: the hint is not displayed while the modal is open, nor before the
\* 30-second timer has run, nor once the 5-second timer after it has run;
\* from then on showHint stays false and no timer is left.
C26_HintOnceForFiveSeconds ==
  /\ HintVisible => ~isOpen /\ now >= 30000 /\ now < 30000 + 5000
  /\ showHint => now >= 30000
  /\ now >= 30000 + 5000 => ~showHint /\ timers = {}

\* The hint is displayed.
C26_Witness == HintVisible /\ now = 30000 /\ ~isOpen

\* showHint is true and the hint is held back by the open modal.
C26_HeldBack == showHint /\ isOpen /\ ~HintVisible

\* The 5-second timer has run and the hint is gone.
C26_Gone == now >= 30000 + 5000 /\ ~showHint /\ lastEvent.type = "timer"

(***************************************************************************)
(* The terminal build log of KonamiCode in part_006: a match of the        *)
(* sequence also sets visibleLines to 0 and isComplete to false, and an    *)
(* interval reveals the lines while the modal is open and the reveal is    *)
(* not complete.                                                           *)
(***************************************************************************)
\* BUILD_LOG, the agent of each entry.
BUILD_LOG ==
  << "mayor", "mayor", "mayor", "mayor", "polecat", "polecat", "polecat", "polecat",
     "refinery", "refinery", "refinery", "mayor", "polecat", "polecat", "polecat",
     "polecat", "polecat", "refinery", "refinery", "refinery", "refinery", "witness",
     "witness", "mayor", "mayor", "success", "final", "final" >>

\* (RevealPastTheEnd compares with prev > BUILD_LOG.length.)
RevealPastTheEnd(prev, complete) ==
  IF prev > Len(BUILD_LOG) THEN [visibleLines |-> prev, isComplete |-> TRUE]
  ELSE [visibleLines |-> prev + 1, isComplete |-> complete]

\* setVisibleLines(prev => ...) of the interval
Reveal(prev, complete) ==
  IF prev >= Len(BUILD_LOG) THEN [visibleLines |-> prev, isComplete |-> TRUE]
  ELSE [visibleLines |-> prev + 1, isComplete |-> complete]

\* BUILD_LOG.slice(0, visibleLines)
VisibleLog == SubSeq(BUILD_LOG, 1, IF visibleLines < Len(BUILD_LOG) THEN visibleLines ELSE Len(BUILD_LOG))

\* The keys pressed while the log is looked at: the sequence, and astray a
\* tracked key or Escape.
TerminalEvents == {e \in KeyboardEvents : e.target = "body" /\ e.code \in {"ArrowUp", "KeyA", "Escape"}}

TerminalKeyDown == \E e \in TerminalEvents \union {[code |-> Expected, target |-> "body"]} :
                     PressKey(e, TRUE)

\* The interval, which the effect keeps while isOpen && !isComplete, ticks.
RevealTick ==
  /\ isOpen /\ ~isComplete
  /\ visibleLines' = Reveal(visibleLines, isComplete).visibleLines
  /\ isComplete' = Reveal(visibleLines, isComplete).isComplete
  /\ lastEvent' = Event("tick", "", "")
  /\ UNCHANGED <<isOpen, inputSequence, showHint, timers, now, recent, strays,
                 schemaVars, countUpVars, timelineVars, modalVars, chartVars, renderVars>>

NextTerminal == TerminalKeyDown \/ ClickBackdrop \/ ClickClose \/ RevealTick

SpecTerminal == InitKonami /\ [][NextTerminal]_vars

\* The interval keeps ticking while it is there.
SpecTerminalFair == SpecTerminal /\ WF_vars(RevealTick)

RevealComplete == isComplete /\ visibleLines = 28 /\ Len(VisibleLog) = 28

\* The last event was a match of the sequence.
Matched == TrackedPress /\ recent = TheSequence

\* Of C27: the lines revealed are 0..28 of the log, all 28 when complete.
RevealInRange ==
  /\ visibleLines \in 0..28
  /\ Len(VisibleLog) = visibleLines
  /\ isComplete => visibleLines = 28

\* Of C27: a tick comes only while the modal is open and the reveal not
\* complete, and reveals exactly one line more, or, all being revealed, marks
\* the reveal complete; a match restarts the reveal; nothing else touches it.
RevealStep ==
  /\ lastEvent'.type = "tick" =>
       /\ isOpen /\ ~isComplete
       /\ \/ visibleLines < 28 /\ visibleLines' = visibleLines + 1 /\ ~isComplete'
          \/ visibleLines = 28 /\ visibleLines' = visibleLines /\ isComplete'
  /\ (lastEvent'.type = "keydown" /\ Matched') => (visibleLines' = 0 /\ ~isComplete' /\ isOpen')
  /\ (lastEvent'.type # "tick" /\ ~(lastEvent'.type = "keydown" /\ Matched')) =>
       UNCHANGED <<visibleLines, isComplete>>

C27_Complete == RevealComplete /\ isOpen /\ lastEvent.type = "tick"

\* C28: of the sections how-it-works, timeline and agents at most one is
\* expanded: how-it-works until a header is used; after toggleSection of the
\* section that was expanded, none; after toggleSection of another, that one
\* alone.
C28_OneSectionExpanded ==
  (view # Undefined /\ view.branch = "enhanced") =>
    /\ Cardinality(view.expanded) <= 1
    /\ view.expanded \subseteq {"how-it-works", "timeline", "agents"}
    /\ lastToggle = Undefined => view.expanded = {"how-it-works"}
    /\ lastToggle # Undefined =>
         view.expanded = IF lastToggle.prev = lastToggle.sectionId THEN {}
                         ELSE {lastToggle.sectionId}

\* The expanded timeline was collapsed, none being left expanded.
C28_Witness ==
  /\ view # Undefined
  /\ lastToggle # Undefined
  /\ lastToggle.prev = "timeline"
  /\ lastToggle.sectionId = "timeline"
  /\ view.expanded = {}

\* The agents section was expanded in place of the timeline.
C28_Switched ==
  /\ view # Undefined
  /\ lastToggle # Undefined
  /\ lastToggle.prev = "timeline"
  /\ lastToggle.sectionId = "agents"
  /\ view.expanded = {"agents"}

(***************************************************************************)
(* The level dots of a skill (SkillsChart, the tag list and the tooltip).  *)
(* The dots are written by name: "filled", "empty".                        *)
(***************************************************************************)
\* char.repeat(count), count a number kept as twice its value: the count is
\* cut to an integer; a negative one throws RangeError.
Repeat(char, twice) ==
  IF twice <= 0 - 2 THEN [threw |-> TRUE, text |-> <<>>]
  ELSE [threw |-> FALSE, text |-> [i \in 1..(IF twice < 0 THEN 0 ELSE twice \div 2) |-> char]]

\* {'●'.repeat(skill.level)}{'○'.repeat(5 - skill.level)}
Dots(level) ==
  LET filled == Repeat("filled", level.twice)
      empty == Repeat("empty", 2 * 5 - level.twice)
  IN  [threw |-> filled.threw \/ empty.threw, text |-> filled.text \o empty.text]

\* C29: the dots of a skill of a validated profile are level filled ones,
\* then 5 - level empty ones, five in all, and writing them does not throw.
C29_FiveDots ==
  (Validated /\ result.success) =>
    LET level == At(result.data, LevelPath)
        dots == Dots(level)
        filled == {i \in DOMAIN dots.text : dots.text[i] = "filled"}
        empty == {i \in DOMAIN dots.text : dots.text[i] = "empty"}
    IN  /\ ~dots.threw
        /\ Len(dots.text) = 5
        /\ 2 * Cardinality(filled) = level.twice
        /\ 2 * Cardinality(empty) = 10 - level.twice
        /\ \A i \in filled, j \in empty : i < j

\* Of C29, the levels that are whole: the dots are as stated.
FiveDotsOfWholeLevel ==
  (Validated /\ result.success /\ At(result.data, LevelPath).twice % 2 = 0) =>
    LET level == At(result.data, LevelPath)
        dots == Dots(level)
    IN  /\ ~dots.threw
        /\ dots.text = [i \in 1..5 |-> IF 2 * i <= level.twice THEN "filled" ELSE "empty"]

====
